---- MODULE Spec2Model ----
(***************************************************************************)
(* Notes application (dogabyte/notes-app): the REST backend                *)
(* (backend_notes: routes, validation middleware, controllers, Mongoose    *)
(* schema, central error handler, app wiring).                             *)
(*                                                                         *)
(* Strings are sequences of one-character strings, so that trim, escape    *)
(* and the length checks are computed as the code computes them.           *)
(***************************************************************************)
EXTENDS Integers, Sequences, FiniteSets, TLC

VARIABLES
    notes,        \* the Note collection: _id -> stored document
    nextId,       \* number of the next ObjectId the driver generates
    now,          \* the server clock (milliseconds), read by Mongoose timestamps
    req,          \* the request handled last
    res,          \* the response sent for it: [status, body]
    storeCalls,   \* number of calls to the Note model made for req
    classified,   \* number of times errorHandler was entered for req
    emittedBy,    \* the piece of code that called res.status(...) for req
    lastWrite,    \* history: per stored note, the request kind that wrote it last
                  \* and the isArchived value it found
    forwardedErr, \* the error errorHandler was entered with for req, if any
    deleted,      \* history: the ids of the notes deleted so far
    hook,         \* the state of the useNotes hook: notes, pagination, filters,
                  \* loadingState, error, isRefreshing
    inFlight,     \* the calls of hook operations awaiting the API adapter
    nextCall,     \* number of the next call
    mounted,      \* whether the view that uses the hook is mounted
    settled,      \* history: the calls that resumed after their await, in order
    lastStep,     \* history: the step of the hook or the adapter taken last
    proc,         \* the server process: listening socket, open connections,
                  \* database connection, shutdown in progress, exit code
    pending       \* the handlers of the backend that await a store call

storeVars ==
    <<notes, nextId, now, req, res, storeCalls, classified, emittedBy, lastWrite,
      forwardedErr, deleted>>

serverVars == <<storeVars, proc, pending>>

clientVars == <<hook, inFlight, nextCall, lastStep, mounted, settled>>

vars ==
    <<notes, nextId, now, req, res, storeCalls, classified, emittedBy, lastWrite,
      forwardedErr, deleted, hook, inFlight, nextCall, lastStep, mounted, settled,
      proc, pending>>

(***************************************************************************)
(* Bounds of the model                                                     *)
(***************************************************************************)
MaxNotes == 2     \* ObjectIds the driver hands out in one run
MaxClock == 3     \* store writes (each reads a later clock value) in one run
MaxPage  == 6     \* listing specification: pages 0..MaxPage are requested
MaxLimit == 3     \* listing specification: limits 1..MaxLimit (and 10, 50)
MaxSeed  == 3     \* listing specification: collections of 0..MaxSeed (and 47) notes
MaxCalls == 2     \* client specification: calls of hook operations in one run
MaxConnections == 2  \* shutdown specification: connections open at a time
MaxTriggers == 2  \* shutdown specification: shutdown triggers in one run

(***************************************************************************)
(* Program constants (config/constants.js)                                 *)
(***************************************************************************)
TITLE_MIN_LENGTH   == 1
TITLE_MAX_LENGTH   == 200
CONTENT_MIN_LENGTH == 1
CONTENT_MAX_LENGTH == 10000
MAX_TAGS           == 10
OBJECT_ID_LENGTH   == 24

OK                    == 200
CREATED               == 201
NO_CONTENT            == 204
BAD_REQUEST           == 400
UNAUTHORIZED          == 401
NOT_FOUND             == 404
CONFLICT              == 409
INTERNAL_SERVER_ERROR == 500
SERVICE_UNAVAILABLE   == 503

NOTE_NOT_FOUND_MSG   == "Note not found"
VALIDATION_ERROR_MSG == "Validation error occurred"

(***************************************************************************)
(* Strings                                                                 *)
(***************************************************************************)
Rep(c, n) == [i \in 1..n |-> c]

IsSpace(c) == c = " "

RECURSIVE TrimLeft(_)
TrimLeft(s) == IF s = <<>> \/ ~IsSpace(s[1]) THEN s ELSE TrimLeft(Tail(s))

RECURSIVE TrimRight(_)
TrimRight(s) ==
    IF s = <<>> \/ ~IsSpace(s[Len(s)]) THEN s
    ELSE TrimRight(SubSeq(s, 1, Len(s) - 1))

\* String.prototype.trim / validator.js trim
Trim(s) == TrimRight(TrimLeft(s))

\* validator.js escape: the characters of Escapable are replaced by HTML
\* entities ("QUOT" stands for the double quote, "BSL" for the backslash, "BTICK" for the backtick)
EscapeChar(c) ==
    CASE c = "&"  -> <<"&", "a", "m", "p", ";">>
      [] c = "<"  -> <<"&", "l", "t", ";">>
      [] c = ">"  -> <<"&", "g", "t", ";">>
      [] c = "QUOT" -> <<"&", "q", "u", "o", "t", ";">>
      [] c = "'"  -> <<"&", "#", "x", "2", "7", ";">>
      [] c = "/"  -> <<"&", "#", "x", "2", "F", ";">>
      [] c = "BSL" -> <<"&", "#", "x", "5", "C", ";">>
      [] c = "BTICK"  -> <<"&", "#", "9", "6", ";">>
      [] OTHER    -> <<c>>

Escapable == {"&", "<", ">", "QUOT", "'", "/", "BSL", "BTICK"}

RECURSIVE Escape(_)
Escape(s) ==
    IF \A i \in 1..Len(s) : s[i] \notin Escapable THEN s
    ELSE EscapeChar(Head(s)) \o Escape(Tail(s))

HexDigits == <<"0", "1", "2", "3", "4", "5", "6", "7", "8", "9",
               "a", "b", "c", "d", "e", "f">>

HexChars == {HexDigits[i] : i \in 1..Len(HexDigits)} \cup {"A", "B", "C", "D", "E", "F"}

\* validator.js isMongoId: a hexadecimal string of 24 characters
IsMongoId(s) == Len(s) = OBJECT_ID_LENGTH /\ \A i \in 1..Len(s) : s[i] \in HexChars

\* the n-th ObjectId generated by the driver (never repeats)
ObjectId(n) ==
    Rep("0", OBJECT_ID_LENGTH - 2) \o <<HexDigits[(n \div 16) + 1], HexDigits[(n % 16) + 1]>>

Has(b, f) == f \in DOMAIN b

\* JavaScript falsiness of a (possibly absent) string-valued body field
Falsy(b, f) == ~Has(b, f) \/ b[f] = <<>>

SetField(b, f, v) == [g \in DOMAIN b \cup {f} |-> IF g = f THEN v ELSE b[g]]

EmptyRecord == [f \in {} |-> 0]

Response(status, body) == [status |-> status, body |-> body]

(***************************************************************************)
(* middleware/validation.js                                                *)
(***************************************************************************)
\* the body fields that carry strings in the requests of the model
StringFields == {"title", "content", "id"}

\* sanitizeRequestBody: every string-valued field of the body is trimmed
sanitizeRequestBody(b) ==
    [f \in DOMAIN b |-> IF f \in StringFields THEN Trim(b[f]) ELSE b[f]]

\* One express-validator chain body(f)[.optional()].trim().notEmpty()
\* .isLength({min, max}).escape(): the validators see the trimmed value, the
\* escaped value is written back to the body afterwards.
FieldChain(b, f, optional, min, max, emptyMsg, lengthMsg) ==
    IF optional /\ ~Has(b, f) THEN [errors |-> {}, body |-> b]
    ELSE LET v == Trim(IF Has(b, f) THEN b[f] ELSE <<>>)
         IN  [errors |->
                  (IF v = <<>>
                   THEN {[field |-> f, message |-> emptyMsg, value |-> v]}
                   ELSE {})
                  \cup
                  (IF Len(v) < min \/ Len(v) > max
                   THEN {[field |-> f, message |-> lengthMsg, value |-> v]}
                   ELSE {}),
              body |-> SetField(b, f, Escape(v))]

TitleLengthMsg == "Title must be between 1 and 200 characters"
ContentLengthMsg == "Content must be between 1 and 10000 characters"

\* param('id').isMongoId()
IdChain(id) ==
    IF IsMongoId(id) THEN {}
    ELSE {[field |-> "id", message |-> "Invalid note ID format", value |-> id]}

validateCreateNote(b) ==
    LET t == FieldChain(b, "title", FALSE, TITLE_MIN_LENGTH, TITLE_MAX_LENGTH,
                        "Title is required", TitleLengthMsg)
        c == FieldChain(t.body, "content", FALSE, CONTENT_MIN_LENGTH,
                        CONTENT_MAX_LENGTH, "Content is required", ContentLengthMsg)
    IN  [errors |-> t.errors \cup c.errors, body |-> c.body]

\* body().custom(...): throws unless req.body.title or req.body.content is truthy
AtLeastOneField(b) ==
    IF Falsy(b, "title") /\ Falsy(b, "content")
    THEN {[field |-> "",
           message |-> "At least one field (title or content) must be provided for update"]}
    ELSE {}

validateUpdateNote(id, b) ==
    LET t == FieldChain(b, "title", TRUE, TITLE_MIN_LENGTH, TITLE_MAX_LENGTH,
                        "Title cannot be empty if provided", TitleLengthMsg)
        c == FieldChain(t.body, "content", TRUE, CONTENT_MIN_LENGTH,
                        CONTENT_MAX_LENGTH, "Content cannot be empty if provided",
                        ContentLengthMsg)
    IN  [errors |-> IdChain(id) \cup t.errors \cup c.errors \cup AtLeastOneField(c.body),
         body |-> c.body]

validateNoteId(id) == IdChain(id)

\* handleValidationErrors: the 400 response sent when the chains found errors
handleValidationErrors(errors) ==
    Response(BAD_REQUEST,
             [success |-> FALSE, message |-> VALIDATION_ERROR_MSG, errors |-> errors])

(***************************************************************************)
(* models/Note.js: the Mongoose schema                                     *)
(***************************************************************************)
\* validators of one String path (required, minlength, maxlength); the trim
\* setter has run before. Mongoose reports one error per path.
StringPathErrors(path, v, min, max, requiredMsg, minMsg, maxMsg) ==
    IF v = <<>> THEN {[field |-> path, message |-> requiredMsg, value |-> v]}
    ELSE IF Len(v) < min THEN {[field |-> path, message |-> minMsg, value |-> v]}
    ELSE IF Len(v) > max THEN {[field |-> path, message |-> maxMsg, value |-> v]}
    ELSE {}

\* mutant: the schema declares no validators
noteSchemaErrorsNone(data) == {}

\* schema validation of the paths present in data (all paths on save, the
\* $set paths on findByIdAndUpdate with runValidators)
noteSchemaErrors(data) ==
    (IF Has(data, "title")
     THEN StringPathErrors("title", Trim(data.title), TITLE_MIN_LENGTH, TITLE_MAX_LENGTH,
                           "Title is required",
                           "Title must be at least 1 character long",
                           "Title cannot exceed 200 characters")
     ELSE {})
    \cup
    (IF Has(data, "content")
     THEN StringPathErrors("content", Trim(data.content), CONTENT_MIN_LENGTH,
                           CONTENT_MAX_LENGTH, "Content is required",
                           "Content must be at least 1 character long",
                           "Content cannot exceed 10000 characters")
     ELSE {})
    \cup
    (IF Has(data, "tags") /\ Len(data.tags) > MAX_TAGS
     THEN {[field |-> "tags", message |-> "A note cannot have more than 10 tags",
            value |-> data.tags]}
     ELSE {})

\* toJSON / toObject transform: _id becomes id, _id and __v are removed
toJSON(doc) ==
    [id |-> doc._id, title |-> doc.title, content |-> doc.content, tags |-> doc.tags,
     isArchived |-> doc.isArchived, createdAt |-> doc.createdAt,
     updatedAt |-> doc.updatedAt]

(***************************************************************************)
(* Errors thrown by Mongoose and the driver                                *)
(***************************************************************************)
\* class: what instanceof sees; words: the substrings of err.message that
\* isDatabaseConnectionError looks for; code: err.code written as a string
ValidationError(errors) ==
    [class |-> "ValidationError", name |-> "ValidationError", words |-> {},
     code |-> "none", errors |-> errors]

MongoNetworkError ==
    [class |-> "MongoNetworkError", name |-> "MongoNetworkError",
     words |-> {"connection"}, code |-> "none"]

MongoServerError ==
    [class |-> "MongoServerError", name |-> "MongoServerError", words |-> {},
     code |-> "none"]

\* no error was passed to errorHandler
NoError == [class |-> "none"]

\* the failure the store call of a request meets, if any
Faults == {"none", "network"}

FaultError(fault) == IF fault = "network" THEN MongoNetworkError ELSE MongoServerError

(***************************************************************************)
(* middleware/errorHandler.js                                              *)
(***************************************************************************)
isDatabaseConnectionError(err) ==
    \/ err.name = "MongooseServerSelectionError"
    \/ err.name = "MongoNetworkError"
    \/ "ECONNREFUSED" \in err.words
    \/ "ETIMEDOUT" \in err.words
    \/ "connection" \in err.words
    \/ err.code = "ENOTFOUND"

handleValidationError(err) ==
    Response(BAD_REQUEST,
             [success |-> FALSE, message |-> VALIDATION_ERROR_MSG, errors |-> err.errors])

handleCastError(err) ==
    Response(BAD_REQUEST,
             [success |-> FALSE, message |-> "Invalid ID format provided",
              field |-> err.path, value |-> err.value])

handleNotFoundError ==
    Response(NOT_FOUND, [success |-> FALSE, message |-> NOTE_NOT_FOUND_MSG])

handleDatabaseConnectionError(err) ==
    Response(SERVICE_UNAVAILABLE,
             [success |-> FALSE, message |-> "Database service is not available"])

handleDuplicateKeyError(err) ==
    Response(CONFLICT,
             [success |-> FALSE, message |-> "Duplicate value for field",
              field |-> err.keyField, value |-> err.keyValue])

handleJWTError(err) ==
    Response(UNAUTHORIZED, [success |-> FALSE, message |-> "Invalid authentication token"])

handleTokenExpiredError ==
    Response(UNAUTHORIZED,
             [success |-> FALSE, message |-> "Authentication token has expired"])

handleGenericError(err) ==
    Response(INTERNAL_SERVER_ERROR,
             [success |-> FALSE, message |-> "Internal server error occurred"])

errorHandler(err) ==
    IF err.class = "ValidationError" THEN handleValidationError(err)
    ELSE IF err.class = "CastError" THEN handleCastError(err)
    ELSE IF err.class = "DocumentNotFoundError" THEN handleNotFoundError
    ELSE IF isDatabaseConnectionError(err) THEN handleDatabaseConnectionError(err)
    ELSE IF err.code = "11000" THEN handleDuplicateKeyError(err)
    ELSE IF err.name = "JsonWebTokenError" THEN handleJWTError(err)
    ELSE IF err.name = "TokenExpiredError" THEN handleTokenExpiredError
    ELSE handleGenericError(err)

(***************************************************************************)
(* The store (Mongoose model Note over the collection)                     *)
(***************************************************************************)
GenericError == [class |-> "Error", name |-> "Error", words |-> {}, code |-> "none"]

\* Mongoose casts the id of a query to an ObjectId and throws a CastError when
\* the string is no ObjectId (24 hexadecimal characters)
CastError(id) ==
    [class |-> "CastError", name |-> "CastError", words |-> {}, code |-> "none",
     path |-> "_id", value |-> id]

IsCastable(id) == Len(id) = OBJECT_ID_LENGTH /\ \A i \in 1..Len(id) : id[i] \in HexChars

\* noteSchema.pre("save"): a title or content that is only whitespace
preSaveFails(doc) ==
    \/ doc.title # <<>> /\ Trim(doc.title) = <<>>
    \/ doc.content # <<>> /\ Trim(doc.content) = <<>>

\* the collection with document d written under its _id
Put(coll, d) ==
    [i \in DOMAIN coll \cup {d._id} |-> IF i = d._id THEN d ELSE coll[i]]

Remove(coll, id) == [i \in DOMAIN coll \ {id} |-> coll[i]]

\* tags.map((tag) => tag.trim()).filter(Boolean)
TrimTags(tags) ==
    SelectSeq([i \in 1..Len(tags) |-> Trim(tags[i])], LAMBDA t : t # <<>>)

\* what a controller leaves behind: either a response it sent itself, or an
\* error passed to next(err)
Sent(coll, nid, clock, response, calls) ==
    [forwarded |-> FALSE, notes |-> coll, nextId |-> nid, now |-> clock,
     res |-> response, storeCalls |-> calls]

Forwarded(err, calls) ==
    [forwarded |-> TRUE, notes |-> notes, nextId |-> nextId, now |-> now,
     err |-> err, storeCalls |-> calls]

\* mutant: the not-found answer is flagged as a success
NotFoundSentAsSuccess(calls) ==
    Sent(notes, nextId, now,
         Response(NOT_FOUND, [success |-> TRUE, message |-> NOTE_NOT_FOUND_MSG]), calls)

NotFoundSent(calls) ==
    Sent(notes, nextId, now,
         Response(NOT_FOUND, [success |-> FALSE, message |-> NOTE_NOT_FOUND_MSG]), calls)

(***************************************************************************)
(* controllers/notesController.js                                          *)
(***************************************************************************)
\* the document new Note(noteData) builds: schema setters applied, isArchived
\* defaulting to false, timestamps set by save() from the clock value t
NewNote(noteData, t) ==
    [_id |-> ObjectId(nextId),
     title |-> IF Has(noteData, "title") THEN Trim(noteData.title) ELSE <<>>,
     content |-> IF Has(noteData, "content") THEN Trim(noteData.content) ELSE <<>>,
     tags |-> noteData.tags,
     isArchived |-> IF Has(noteData, "isArchived") THEN noteData.isArchived ELSE FALSE,
     createdAt |-> t,
     updatedAt |-> t,
     __v |-> 0]

\* mutant: the whole request body is handed to new Note(...)
CreateNoteDataWholeBody(body) ==
    [f \in (DOMAIN body \cap {"title", "content", "isArchived"}) \cup {"tags"} |->
        IF f = "tags" THEN (IF Has(body, "tags") THEN TrimTags(body.tags) ELSE <<>>)
        ELSE IF f = "isArchived" THEN body[f]
        ELSE Trim(body[f])]

\* the noteData object of createNote: only title, content and tags are read
CreateNoteData(body) ==
    LET base == [tags |-> IF Has(body, "tags") THEN TrimTags(body.tags) ELSE <<>>]
        withTitle == IF Has(body, "title")
                     THEN SetField(base, "title", Trim(body.title)) ELSE base
    IN  IF Has(body, "content")
        THEN SetField(withTitle, "content", Trim(body.content)) ELSE withTitle

createNote(body, fault) ==
    LET noteData == CreateNoteData(body)
        doc == NewNote(noteData, now + 1)
        errs == noteSchemaErrors(doc)
    IN  IF errs # {} THEN Forwarded(ValidationError(errs), 1)
        ELSE IF preSaveFails(doc) THEN Forwarded(GenericError, 1)
        ELSE IF fault # "none" THEN Forwarded(FaultError(fault), 1)
        ELSE Sent(Put(notes, doc), nextId + 1, now + 1,
                  Response(CREATED,
                           [success |-> TRUE, message |-> "Note created successfully",
                            data |-> toJSON(doc)]),
                  1)

\* mutant: every field of the body but the id goes into the update
UpdateDataWholeBody(body) ==
    [f \in DOMAIN body \ {"id"} |->
        IF f \in {"title", "content"} THEN Trim(body[f])
        ELSE IF f = "tags" THEN TrimTags(body[f])
        ELSE body[f]]

\* the updateData object of updateNote: only the provided fields
UpdateData(body) ==
    LET d1 == IF Has(body, "title")
              THEN SetField(EmptyRecord, "title", Trim(body.title)) ELSE EmptyRecord
        d2 == IF Has(body, "content")
              THEN SetField(d1, "content", Trim(body.content)) ELSE d1
        d3 == IF Has(body, "tags") THEN SetField(d2, "tags", TrimTags(body.tags)) ELSE d2
    IN  IF Has(body, "isArchived") THEN SetField(d3, "isArchived", body.isArchived) ELSE d3

\* mutant: the update replaces the document (overwrite), absent fields fall
\* back to their schema defaults
ApplyUpdateOverwrite(doc, updateData, t) ==
    [f \in DOMAIN doc |->
        IF f = "updatedAt" THEN t
        ELSE IF f \in DOMAIN updateData THEN updateData[f]
        ELSE IF f = "tags" THEN <<>>
        ELSE IF f = "isArchived" THEN FALSE
        ELSE doc[f]]

\* findByIdAndUpdate: $set of the given fields; timestamps adds updatedAt
ApplyUpdate(doc, updateData, t) ==
    [f \in DOMAIN doc |->
        IF f = "updatedAt" THEN t
        ELSE IF f \in DOMAIN updateData THEN updateData[f]
        ELSE doc[f]]

updateNote(id, body, fault) ==
    LET updateData == UpdateData(body)
        errs == noteSchemaErrors(updateData)
    IN  IF ~IsCastable(id) THEN Forwarded(CastError(id), 1)
        ELSE IF errs # {} THEN Forwarded(ValidationError(errs), 1)
        ELSE IF fault # "none" THEN Forwarded(FaultError(fault), 1)
        ELSE IF id \notin DOMAIN notes THEN NotFoundSent(1)
        ELSE LET updatedNote == ApplyUpdate(notes[id], updateData, now + 1)
             IN  Sent(Put(notes, updatedNote), nextId, now + 1,
                      Response(OK,
                               [success |-> TRUE, message |-> "Note updated successfully",
                                data |-> toJSON(updatedNote)]),
                      1)

deleteNote(id, fault) ==
    IF ~IsCastable(id) THEN Forwarded(CastError(id), 1)
    ELSE IF fault # "none" THEN Forwarded(FaultError(fault), 1)
    ELSE IF id \notin DOMAIN notes THEN NotFoundSent(1)
    ELSE Sent(Remove(notes, id), nextId, now,
              Response(OK,
                       [success |-> TRUE, message |-> "Note deleted successfully",
                        data |-> [id |-> id, title |-> notes[id].title]]),
              1)

\* findById(id).lean(): the raw document, _id and __v included
getNoteById(id, fault) ==
    IF ~IsCastable(id) THEN Forwarded(CastError(id), 1)
    ELSE IF fault # "none" THEN Forwarded(FaultError(fault), 1)
    ELSE IF id \notin DOMAIN notes THEN NotFoundSent(1)
    ELSE Sent(notes, nextId, now,
              Response(OK, [success |-> TRUE, data |-> notes[id]]), 1)

\* mutant: the handler archives instead of toggling
ToggledArchiveOnly(doc, t) == [doc EXCEPT !.isArchived = TRUE, !.updatedAt = t]

\* the document toggleArchiveNote saves: the flag flipped, updatedAt bumped
Toggled(doc, t) == [doc EXCEPT !.isArchived = ~doc.isArchived, !.updatedAt = t]

toggleArchiveNote(id, fault) ==
    IF ~IsCastable(id) THEN Forwarded(CastError(id), 1)
    ELSE IF fault # "none" THEN Forwarded(FaultError(fault), 1)
    ELSE IF id \notin DOMAIN notes THEN NotFoundSent(1)
    ELSE LET updatedNote == Toggled(notes[id], now + 1)
             errs == noteSchemaErrors(updatedNote)
         IN  IF errs # {} THEN Forwarded(ValidationError(errs), 2)
             ELSE IF preSaveFails(updatedNote) THEN Forwarded(GenericError, 2)
             ELSE Sent(Put(notes, updatedNote), nextId, now + 1,
                       Response(OK,
                                [success |-> TRUE,
                                 message |-> IF updatedNote.isArchived
                                             THEN "Note archived successfully"
                                             ELSE "Note unarchived successfully",
                                 data |-> toJSON(updatedNote)]),
                       2)

(***************************************************************************)
(* Listing and text search                                                 *)
(***************************************************************************)
Digits == <<"0", "1", "2", "3", "4", "5", "6", "7", "8", "9">>

DigitValue(c) == (CHOOSE i \in 1..Len(Digits) : Digits[i] = c) - 1

\* parseInt of a string of decimal digits
RECURSIVE ParseInt(_)
ParseInt(s) ==
    IF Len(s) = 1 THEN DigitValue(s[1])
    ELSE 10 * ParseInt(SubSeq(s, 1, Len(s) - 1)) + DigitValue(s[Len(s)])

\* the decimal string of a number below 100, as a client writes it in the URL
DecimalString(n) ==
    IF n < 10 THEN <<Digits[n + 1]>> ELSE <<Digits[(n \div 10) + 1], Digits[(n % 10) + 1]>>

\* the numeric coercion the comparisons page < totalPages and page > 1 apply to
\* the raw query string; on a string of decimal digits it agrees with parseInt
ToNumber(s) == ParseInt(s)

\* a query parameter with its default (destructuring default of req.query)
Param(params, f, default) == IF Has(params, f) THEN params[f] ELSE default

\* the words of a text: maximal runs of non-space characters
WordStarts(s) ==
    {i \in 1..Len(s) : ~IsSpace(s[i]) /\ (i = 1 \/ IsSpace(s[i - 1]))}

WordAt(s, i) ==
    LET last == CHOOSE j \in i..Len(s) :
                    /\ j = Len(s) \/ IsSpace(s[j + 1])
                    /\ \A k \in i..j : ~IsSpace(s[k])
    IN  SubSeq(s, i, last)

Words(s) == {WordAt(s, i) : i \in WordStarts(s)}

Occurrences(s, term) == Cardinality({i \in WordStarts(s) : WordAt(s, i) = term})

RECURSIVE SumOver(_, _, _)
SumOver(terms, title, content) ==
    IF terms = {} THEN 0
    ELSE LET t == CHOOSE x \in terms : TRUE
         IN  Occurrences(title, t) + Occurrences(content, t)
             + SumOver(terms \ {t}, title, content)

\* $meta textScore of the text index over title and content: the number of
\* occurrences of the search terms
TextScore(doc, search) == SumOver(Words(search), doc.title, doc.content)

\* $text: { $search }
TextMatch(doc, search) == TextScore(doc, search) > 0

\* the order of characters in string comparison
CharOrder == <<" ", "&", "-", ";", "<", "a", "b", "c", "d", "g", "l", "m", "p", "t",
               "x", "y">>

CharRank(c) ==
    IF \E i \in 1..Len(CharOrder) : CharOrder[i] = c
    THEN CHOOSE i \in 1..Len(CharOrder) : CharOrder[i] = c
    ELSE Len(CharOrder) + 1

\* s < t on strings: decided at the first position where they differ, a
\* proper prefix coming first
StrLess(s, t) ==
    LET differ == {i \in 1..Len(s) : i <= Len(t) /\ s[i] # t[i]}
    IN  IF differ = {} THEN Len(s) < Len(t)
        ELSE LET first == CHOOSE i \in differ : \A j \in differ : i <= j
             IN  CharRank(s[first]) < CharRank(t[first])

\* the documents of the collection in insertion order
NaturalOrder(coll) ==
    LET ids == SelectSeq([n \in 1..(nextId - 1) |-> ObjectId(n)],
                         LAMBDA i : i \in DOMAIN coll)
    IN  [k \in 1..Len(ids) |-> coll[ids[k]]]

\* a before b under sort({[sortBy]: direction}); equal keys keep insertion order
SortsBefore(a, b, sortBy, descending) ==
    IF sortBy = "title"
    THEN IF a.title = b.title THEN a.createdAt < b.createdAt
         ELSE IF descending THEN StrLess(b.title, a.title) ELSE StrLess(a.title, b.title)
    ELSE IF a[sortBy] = b[sortBy] THEN a.createdAt < b.createdAt
         ELSE IF descending THEN a[sortBy] > b[sortBy] ELSE a[sortBy] < b[sortBy]

\* mutant: a text filter restricts the matches to non-archived notes
FindActiveOnSearch(coll, isArchived, search, sortBy, descending) ==
    LET matching == SelectSeq(NaturalOrder(coll),
                        LAMBDA d : IF Trim(search) # <<>>
                                   THEN ~d.isArchived /\ TextMatch(d, search)
                                   ELSE d.isArchived = isArchived)
    IN  SortSeq(matching, LAMBDA a, b : SortsBefore(a, b, sortBy, descending))

\* find(filter).sort(sortOptions) of getNotes
Find(coll, isArchived, search, sortBy, descending) ==
    LET matching == SelectSeq(NaturalOrder(coll),
                        LAMBDA d : /\ d.isArchived = isArchived
                                   /\ Trim(search) # <<>> => TextMatch(d, search))
    IN  SortSeq(matching, LAMBDA a, b : SortsBefore(a, b, sortBy, descending))

\* skip(n).limit(m) of a query
Page(docs, skip, limit) ==
    SubSeq(docs, skip + 1, IF skip + limit < Len(docs) THEN skip + limit ELSE Len(docs))

\* mutant: the page count is rounded down
CeilTruncated(a, b) == a \div b

\* Math.ceil(a / b) for b > 0
Ceil(a, b) == (a + b - 1) \div b

getNotes(params, fault) ==
    LET page == Param(params, "page", <<"1">>)
        limit == Param(params, "limit", <<"5", "0">>)
        sortBy == Param(params, "sortBy", "createdAt")
        sortOrder == Param(params, "sortOrder", "desc")
        archived == Param(params, "archived", "false")
        search == Param(params, "search", <<>>)
        skip == (ParseInt(page) - 1) * ParseInt(limit)
        found == Find(notes, archived = "true", search, sortBy, sortOrder = "desc")
        totalCount == Len(found)
        totalPages == Ceil(totalCount, ParseInt(limit))
    IN  IF fault # "none" THEN Forwarded(FaultError(fault), 2)
        ELSE IF skip < 0 THEN Forwarded(MongoServerError, 2)
        ELSE Sent(notes, nextId, now,
                  Response(OK,
                           [success |-> TRUE,
                            data |-> Page(found, skip, ParseInt(limit)),
                            pagination |->
                                [currentPage |-> ParseInt(page),
                                 totalPages |-> totalPages,
                                 totalCount |-> totalCount,
                                 hasNextPage |-> ToNumber(page) < totalPages,
                                 hasPrevPage |-> ToNumber(page) > 1,
                                 limit |-> ParseInt(limit)]]),
                  2)

\* Note.searchNotes(query): non-archived text matches, best score first, each
\* document carrying its score
SearchNotesQuery(coll, text) ==
    LET matching == SelectSeq(NaturalOrder(coll),
                        LAMBDA d : ~d.isArchived /\ TextMatch(d, text))
        scored == [k \in 1..Len(matching) |->
                      [f \in DOMAIN matching[k] \cup {"score"} |->
                          IF f = "score" THEN TextScore(matching[k], text)
                          ELSE matching[k][f]]]
    IN  SortSeq(scored, LAMBDA a, b : IF a.score = b.score THEN a.createdAt < b.createdAt
                                      ELSE a.score > b.score)

searchNotes(params, fault) ==
    LET q == Param(params, "q", <<>>)
        limit == Param(params, "limit", <<"1", "0">>)
    IN  IF Trim(q) = <<>>
        THEN Sent(notes, nextId, now,
                  Response(BAD_REQUEST,
                           [success |-> FALSE, message |-> "Search query is required"]), 0)
        ELSE IF fault # "none" THEN Forwarded(FaultError(fault), 1)
        ELSE LET found == Page(SearchNotesQuery(notes, Trim(q)), 0, ParseInt(limit))
             IN  Sent(notes, nextId, now,
                      Response(OK,
                               [success |-> TRUE, data |-> found,
                                meta |-> [query |-> Trim(q), resultsCount |-> Len(found)]]),
                      1)

(***************************************************************************)
(* index.js (createApp) and routes/notes.js: the way of a request          *)
(***************************************************************************)
\* the final state of a request whose response a middleware or the app sent
\* before any controller ran
Direct(response, by) ==
    [notes |-> notes, nextId |-> nextId, now |-> now, res |-> response,
     storeCalls |-> 0, classified |-> 0, emittedBy |-> by, err |-> NoError]

\* mutant: the controller answers an error itself instead of passing it on
FinishLocally(outcome) ==
    IF outcome.forwarded
    THEN [notes |-> outcome.notes, nextId |-> outcome.nextId, now |-> outcome.now,
          res |-> Response(INTERNAL_SERVER_ERROR,
                           [success |-> FALSE, message |-> "Internal server error"]),
          storeCalls |-> outcome.storeCalls, classified |-> 0, emittedBy |-> "controller",
          err |-> NoError]
    ELSE [notes |-> outcome.notes, nextId |-> outcome.nextId, now |-> outcome.now,
          res |-> outcome.res, storeCalls |-> outcome.storeCalls,
          classified |-> 0, emittedBy |-> "controller", err |-> NoError]

\* the final state of a request a controller handled: its own response, or the
\* response of errorHandler for the error it passed to next
Finish(outcome) ==
    IF outcome.forwarded
    THEN [notes |-> outcome.notes, nextId |-> outcome.nextId, now |-> outcome.now,
          res |-> errorHandler(outcome.err), storeCalls |-> outcome.storeCalls,
          classified |-> 1, emittedBy |-> "errorHandler", err |-> outcome.err]
    ELSE [notes |-> outcome.notes, nextId |-> outcome.nextId, now |-> outcome.now,
          res |-> outcome.res, storeCalls |-> outcome.storeCalls,
          classified |-> 0, emittedBy |-> "controller", err |-> NoError]

\* router.METHOD(path, validation..., controller) behind sanitizeRequestBody
Route(r) ==
    CASE r.op = "list" -> Finish(getNotes(r.query, r.fault))
      [] r.op = "search" -> Finish(searchNotes(r.query, r.fault))
      [] r.op = "getById" ->
            IF validateNoteId(r.id) # {}
            THEN Direct(handleValidationErrors(validateNoteId(r.id)), "handleValidationErrors")
            ELSE Finish(getNoteById(r.id, r.fault))
      [] r.op = "create" ->
            LET v == validateCreateNote(sanitizeRequestBody(r.body))
            IN  IF v.errors # {}
                THEN Direct(handleValidationErrors(v.errors), "handleValidationErrors")
                ELSE Finish(createNote(v.body, r.fault))
      [] r.op = "update" ->
            LET v == validateUpdateNote(r.id, sanitizeRequestBody(r.body))
            IN  IF v.errors # {}
                THEN Direct(handleValidationErrors(v.errors), "handleValidationErrors")
                ELSE Finish(updateNote(r.id, v.body, r.fault))
      [] r.op = "toggle" ->
            IF validateNoteId(r.id) # {}
            THEN Direct(handleValidationErrors(validateNoteId(r.id)), "handleValidationErrors")
            ELSE Finish(toggleArchiveNote(r.id, r.fault))
      [] r.op = "delete" ->
            IF validateNoteId(r.id) # {}
            THEN Direct(handleValidationErrors(validateNoteId(r.id)), "handleValidationErrors")
            ELSE Finish(deleteNote(r.id, r.fault))

\* express.json(): a body that is not JSON raises the SyntaxError of
\* JSON.parse, passed to next. Its message is the runtime's: Node 18 names the
\* offending character and position only, Node 20 and later also quote the text
\* around it, so the message then holds the words of the body.
JsonSyntaxError(r) ==
    [class |-> "SyntaxError", name |-> "SyntaxError",
     words |-> IF r.quoted THEN r.words ELSE {}, code |-> "none"]

\* createApp: the middleware stack in order
App(r) ==
    CASE r.op = "preflight" -> Direct(Response(NO_CONTENT, EmptyRecord), "cors")
      [] r.op = "malformedJson" ->
            Finish(Forwarded(JsonSyntaxError(r), 0))
      [] r.op = "health" ->
            Direct(Response(OK, [status |-> "healthy", timestamp |-> now,
                                 environment |-> "development", uptime |-> now]),
                   "health")
      [] r.op = "unknown" ->
            Direct(Response(NOT_FOUND, [success |-> FALSE, message |-> "Route not found"]),
                   "notFoundRoute")
      [] OTHER -> Route(r)

\* one request handled to its response
Serve(r) ==
    \E final \in {App(r)} :
        /\ req' = r
        /\ notes' = final.notes
        /\ nextId' = final.nextId
        /\ now' = final.now
        /\ res' = final.res
        /\ storeCalls' = final.storeCalls
        /\ classified' = final.classified
        /\ emittedBy' = final.emittedBy
        /\ forwardedErr' = final.err
        /\ deleted' = deleted \cup (DOMAIN notes \ DOMAIN final.notes)
        /\ UNCHANGED <<proc, pending>>
        /\ lastWrite' =
              [i \in DOMAIN final.notes |->
                  IF i \notin DOMAIN notes
                  THEN [op |-> r.op, wasArchived |-> final.notes[i].isArchived]
                  ELSE IF final.notes[i] # notes[i]
                  THEN [op |-> r.op, wasArchived |-> notes[i].isArchived]
                  ELSE lastWrite[i]]

(***************************************************************************)
(* hooks/useNotes.ts: the state of the hook after its first render         *)
(***************************************************************************)
Null == "null"

InitialPagination ==
    [currentPage |-> 1, totalPages |-> 1, totalCount |-> 0, hasNextPage |-> FALSE,
     hasPrevPage |-> FALSE, limit |-> 20]

InitialHook ==
    [notes |-> <<>>, pagination |-> InitialPagination, filters |-> EmptyRecord,
     loadingState |-> "idle", error |-> Null, isRefreshing |-> FALSE]

NoStep == [op |-> "none"]

ClientInit ==
    /\ hook = InitialHook
    /\ inFlight = EmptyRecord
    /\ nextCall = 1
    /\ lastStep = NoStep
    /\ mounted = TRUE
    /\ settled = <<>>

(***************************************************************************)
(* index.js: the server process and its shutdown                           *)
(***************************************************************************)
FORCE_SHUTDOWN_MS == 10000

\* the instants the model looks at the clock of a shutdown
ClockStep == FORCE_SHUTDOWN_MS \div 4

Triggers == {"SIGTERM", "SIGINT", "SIGUSR2", "uncaughtException", "unhandledRejection"}

\* the value of exit while the process runs (an exit code is 0 or more)
Running == 0 - 1

\* startServer after app.listen: the database is connected, the handlers of
\* the triggers are installed; listening is false when the port could not be
\* bound
Started(listening) ==
    [listening |-> listening,   \* the server has a listening handle
     connections |-> 0,       \* open connections with a request in flight
     onClose |-> <<>>,        \* the listeners of the server's close event
     db |-> "connected",      \* connected | closing | closed | failed
     timers |-> {},           \* the instants at which a forced exit is due
     elapsed |-> 0,           \* time since the first trigger
     received |-> <<>>,       \* the triggers received, in order
     exit |-> Running,        \* the exit code once the process has exited
     exitBy |-> "none",       \* the process.exit call that ended the process
     log |-> <<>>]            \* history: what has happened to socket and database

ProcessInit == proc = Started(TRUE) /\ pending = EmptyRecord

Alive == proc.exit = Running

\* net.Server.close(callback): the callback waits for the close event; on a
\* server without a handle it will be called with ERR_SERVER_NOT_RUNNING
serverClose(p) ==
    [p EXCEPT !.onClose = Append(@, IF p.listening THEN "closed" ELSE "notRunning"),
              !.listening = FALSE,
              !.log = IF p.listening THEN Append(@, "socketClosed") ELSE @]

\* gracefulShutdown(signal, server)
gracefulShutdown(p, signal) ==
    [serverClose(p) EXCEPT !.timers = @ \cup {p.elapsed + FORCE_SHUTDOWN_MS},
                           !.received = Append(@, signal)]

\* process.exit(code)
Exit(p, code, by) == [p EXCEPT !.exit = code, !.exitBy = by]

\* mutant: the callback exits with 0 without closing the database connection
emitCloseExitingFirst(p, listeners) ==
    IF listeners = <<>> \/ p.exit # Running THEN p
    ELSE IF Head(listeners) = "notRunning"
    THEN Exit(p, 1, "closeError")
    ELSE Exit(p, 0, "done")

\* the close event: its listeners are called in the order they were added; the
\* callback of gracefulShutdown exits with 1 on an error and begins
\* disconnectDB otherwise, up to its await. mongoose.connection.close() on a
\* connection that is closing or closed begins nothing new.
RECURSIVE emitClose(_, _)
emitClose(p, listeners) ==
    IF listeners = <<>> \/ p.exit # Running THEN p
    ELSE IF Head(listeners) = "notRunning"
    THEN Exit(p, 1, "closeError")
    ELSE emitClose([p EXCEPT !.db = IF @ = "connected" THEN "closing" ELSE @,
                             !.log = Append(@, "disconnecting")],
                   Tail(listeners))

ProcessStep(p) ==
    /\ proc' = p
    /\ UNCHANGED <<storeVars, pending, clientVars>>

\* a connection is accepted and its request begins
Accept ==
    /\ Alive
    /\ proc.listening
    /\ proc.connections < MaxConnections
    /\ ProcessStep([proc EXCEPT !.connections = @ + 1])

\* the request of a connection is answered and the connection ends
ConnectionEnds ==
    /\ Alive
    /\ proc.connections > 0
    /\ ProcessStep([proc EXCEPT !.connections = @ - 1,
                                !.log = IF proc.listening THEN @
                                        ELSE Append(@, "connectionEnded")])

\* a signal, an uncaught exception or an unhandled rejection
Trigger ==
    \E signal \in Triggers :
        /\ Alive
        /\ Len(proc.received) < MaxTriggers
        /\ ProcessStep(gracefulShutdown(proc, signal))

\* the server has no handle and no connection: the close event is emitted
CloseEvent ==
    /\ Alive
    /\ ~proc.listening
    /\ proc.connections = 0
    /\ proc.onClose # <<>>
    /\ ProcessStep(emitClose([proc EXCEPT !.onClose = <<>>,
                                          !.log = Append(@, "drained")],
                             proc.onClose))

\* mongoose.connection.close() resolves: the callback exits with 0
DisconnectResolves ==
    /\ Alive
    /\ proc.db = "closing"
    /\ ProcessStep(Exit([proc EXCEPT !.db = "closed", !.log = Append(@, "dbClosed")],
                        0, "done"))

\* mongoose.connection.close() rejects: the callback exits with 1
DisconnectRejects ==
    /\ Alive
    /\ proc.db = "closing"
    /\ ProcessStep(Exit([proc EXCEPT !.db = "failed"], 1, "dbError"))

TimerDue == \E t \in proc.timers : t <= proc.elapsed

\* time passes during a shutdown, up to the next timer
Clock ==
    /\ Alive
    /\ proc.timers # {}
    /\ ~TimerDue
    /\ ProcessStep([proc EXCEPT !.elapsed = @ + ClockStep])

\* the timer of gracefulShutdown fires
ForcedExit ==
    /\ Alive
    /\ TimerDue
    /\ ProcessStep(Exit(proc, 1, "timeout"))

InitShutdown ==
    /\ notes = EmptyRecord
    /\ nextId = 1
    /\ now = 0
    /\ req = [op |-> "none"]
    /\ res = Response(0, EmptyRecord)
    /\ storeCalls = 0
    /\ classified = 0
    /\ emittedBy = "none"
    /\ lastWrite = EmptyRecord
    /\ forwardedErr = NoError
    /\ deleted = {}
    /\ hook = InitialHook
    /\ inFlight = EmptyRecord
    /\ nextCall = 1
    /\ lastStep = NoStep
    /\ mounted = TRUE
    /\ settled = <<>>
    /\ pending = EmptyRecord
    /\ \E listening \in BOOLEAN : proc = Started(listening)

NextShutdown ==
    \/ Accept
    \/ ConnectionEnds
    \/ Trigger
    \/ CloseEvent
    \/ DisconnectResolves
    \/ DisconnectRejects
    \/ Clock
    \/ ForcedExit

\* time passes and a timer that is due fires; nothing else is certain to happen
SpecShutdown ==
    /\ InitShutdown
    /\ [][NextShutdown]_vars
    /\ WF_vars(Clock)
    /\ WF_vars(ForcedExit)

(***************************************************************************)
(* Requests of the model                                                   *)
(***************************************************************************)
T200 == Rep("a", TITLE_MAX_LENGTH)
T201 == Rep("a", TITLE_MAX_LENGTH + 1)
\* 200 characters, one of which escape() expands
T200Markup == <<"<">> \o Rep("a", TITLE_MAX_LENGTH - 1)

NotAnId == <<"n", "o", "t", "-", "a", "n", "-", "i", "d">>

IdParams == {ObjectId(n) : n \in 1..MaxNotes} \cup {NotAnId}

CreateBodies ==
    { [title |-> <<"a">>, content |-> <<"c">>],
      [title |-> <<" ", "b", " ">>, content |-> <<" ", "a", " ", "a">>,
       tags |-> << <<" ", "x", " ">>, <<" ">> >>, isArchived |-> TRUE,
       id |-> <<"9">>, createdAt |-> 99, updatedAt |-> 99],
      [title |-> T200, content |-> <<"c">>],
      [title |-> T201, content |-> <<"c">>],
      [title |-> T200Markup, content |-> <<"c">>],
      [title |-> <<" ", " ">>, content |-> <<"c">>],
      [content |-> <<"c">>] }

UpdateBodies ==
    { EmptyRecord,
      [tags |-> << <<"y">> >>],
      [isArchived |-> TRUE],
      [title |-> <<"b">>],
      [content |-> <<" ", "d", " ">>],
      [title |-> T200],
      [title |-> T201],
      [title |-> T200Markup],
      [title |-> <<"a">>, tags |-> << <<"y">>, <<" ">> >>, isArchived |-> FALSE] }

SortQueries ==
    { [sortBy |-> f, sortOrder |-> o] :
        f \in {"createdAt", "updatedAt", "title"}, o \in {"asc", "desc"} }

SearchQueries ==
    { [search |-> <<"a">>],
      [search |-> <<"a">>, archived |-> "true"],
      [search |-> <<"a">>, sortBy |-> "title", sortOrder |-> "asc"],
      [search |-> <<" ">>, archived |-> "true"] }

ListQueries ==
    SortQueries \cup SearchQueries
    \cup { EmptyRecord, [archived |-> "true"],
           [page |-> <<"0">>, limit |-> <<"1">>],
           [page |-> <<"2">>, limit |-> <<"1">>] }

SearchRouteQueries ==
    { EmptyRecord, [q |-> <<" ">>], [q |-> <<" ", "a">>],
      [q |-> <<"a">>, limit |-> <<"1">>] }

\* every request is tried with a healthy store, one of each kind with a store
\* whose connection fails
ListRequests ==
    {[op |-> "list", query |-> q, fault |-> "none"] : q \in ListQueries}
    \cup {[op |-> "list", query |-> EmptyRecord, fault |-> "network"]}

SearchRequests ==
    {[op |-> "search", query |-> q, fault |-> "none"] : q \in SearchRouteQueries}
    \cup {[op |-> "search", query |-> [q |-> <<"a">>], fault |-> "network"]}

IdRequests(op) ==
    {[op |-> op, id |-> id, fault |-> "none"] : id \in IdParams}
    \cup {[op |-> op, id |-> ObjectId(1), fault |-> "network"]}

\* one tag more than a note may have
TooManyTags == [i \in 1..(MAX_TAGS + 1) |-> <<"t">>]

CreateRequests ==
    {[op |-> "create", body |-> b, fault |-> "none"] : b \in CreateBodies}
    \cup {[op |-> "create", body |-> [title |-> <<"a">>, content |-> <<"c">>],
           fault |-> "network"]}
    \cup {[op |-> "create",
           body |-> [title |-> <<"a">>, content |-> <<"c">>, tags |-> TooManyTags],
           fault |-> "none"]}

UpdateRequests ==
    {[op |-> "update", id |-> ObjectId(n), body |-> b, fault |-> "none"] :
        n \in 1..MaxNotes, b \in UpdateBodies}
    \cup {[op |-> "update", id |-> NotAnId, body |-> b, fault |-> "none"] :
            b \in {EmptyRecord, [title |-> <<"b">>]}}
    \cup {[op |-> "update", id |-> ObjectId(1), body |-> [title |-> <<"b">>],
           fault |-> "network"]}
    \cup {[op |-> "update", id |-> ObjectId(1),
           body |-> [title |-> <<"b">>, tags |-> TooManyTags], fault |-> "none"]}
    \cup {[op |-> "update", id |-> ObjectId(1),
           body |-> [title |-> <<"b">>, id |-> <<"9">>, createdAt |-> 99,
                     updatedAt |-> 99],
           fault |-> "none"]}

(***************************************************************************)
(* The state machine                                                       *)
(***************************************************************************)
Init ==
    /\ notes = EmptyRecord
    /\ nextId = 1
    /\ now = 0
    /\ req = [op |-> "none"]
    /\ res = Response(0, EmptyRecord)
    /\ storeCalls = 0
    /\ classified = 0
    /\ emittedBy = "none"
    /\ lastWrite = EmptyRecord
    /\ forwardedErr = NoError
    /\ deleted = {}
    /\ ClientInit
    /\ ProcessInit

\* bodies that are not JSON: one of brackets only, one that holds the word
\* connection; each on a runtime that quotes the body in the message and on one
\* that does not
MalformedJsonRequests ==
    { [op |-> "malformedJson", words |-> w, quoted |-> q] :
        w \in {{}, {"connection"}}, q \in BOOLEAN }

\* the model follows at most MaxNotes creations and MaxClock store writes
CanWrite == now < MaxClock

\* each action is one route of the router: the request is of that route's kind
GetNotes ==
    \E r \in ListRequests :
        /\ r.op = "list"
        /\ Serve(r)
        /\ UNCHANGED clientVars

SearchNotes ==
    \E r \in SearchRequests :
        /\ r.op = "search"
        /\ Serve(r)
        /\ UNCHANGED clientVars

GetNoteById ==
    \E r \in IdRequests("getById") :
        /\ r.op = "getById"
        /\ Serve(r)
        /\ UNCHANGED clientVars

CreateNote ==
    /\ CanWrite
    /\ nextId <= MaxNotes
    /\ \E r \in CreateRequests : Serve(r)
    /\ UNCHANGED clientVars

UpdateNote ==
    /\ CanWrite
    /\ \E r \in UpdateRequests : Serve(r)
    /\ UNCHANGED clientVars

ToggleArchiveNote ==
    /\ CanWrite
    /\ \E r \in IdRequests("toggle") : Serve(r)
    /\ UNCHANGED clientVars

DeleteNote ==
    \E r \in IdRequests("delete") :
        /\ r.op = "delete"
        /\ Serve(r)
        /\ UNCHANGED clientVars

Health ==
    \E r \in {[op |-> "health"]} :
        /\ r.op = "health"
        /\ Serve(r)
        /\ UNCHANGED clientVars

UnknownRoute ==
    \E r \in {[op |-> "unknown"]} :
        /\ r.op = "unknown"
        /\ Serve(r)
        /\ UNCHANGED clientVars

Preflight ==
    \E r \in {[op |-> "preflight"]} :
        /\ r.op = "preflight"
        /\ Serve(r)
        /\ UNCHANGED clientVars

MalformedJson ==
    \E r \in MalformedJsonRequests :
        /\ r.op = "malformedJson"
        /\ Serve(r)
        /\ UNCHANGED clientVars

Next ==
    \/ GetNotes
    \/ SearchNotes
    \/ GetNoteById
    \/ CreateNote
    \/ UpdateNote
    \/ ToggleArchiveNote
    \/ DeleteNote
    \/ Health
    \/ UnknownRoute
    \/ Preflight
    \/ MalformedJson

Spec == Init /\ [][Next]_vars

(***************************************************************************)
(* Listing specification: a collection of n notes, the k oldest archived,  *)
(* as n create requests followed by k toggle requests leave it; only list  *)
(* requests follow, so the store does not change.                          *)
(***************************************************************************)
SeededNote(i, n, k) ==
    [_id |-> ObjectId(i),
     title |-> IF i % 2 = 0 THEN <<"a">> ELSE <<"b">>,
     content |-> <<"c">>,
     tags |-> <<>>,
     isArchived |-> i <= k,
     createdAt |-> i,
     updatedAt |-> IF i <= k THEN n + i ELSE i,
     __v |-> 0]

Seeded(n, k) ==
    LET ids == {ObjectId(i) : i \in 1..n}
        number(id) == CHOOSE i \in 1..n : ObjectId(i) = id
    IN  [id \in ids |-> SeededNote(number(id), n, k)]

SeedSizes == (0..MaxSeed) \cup {47}

SeededListRequests ==
    { [op |-> "list", fault |-> "none",
       query |-> [page |-> DecimalString(p), limit |-> DecimalString(l), archived |-> a]] :
        p \in 0..MaxPage, l \in (1..MaxLimit) \cup {10, 50}, a \in {"false", "true"} }

InitList ==
    \E n \in SeedSizes, k \in {0, 2} :
        /\ k <= n
        /\ notes = Seeded(n, k)
        /\ nextId = n + 1
        /\ now = n + k
        /\ req = [op |-> "none"]
        /\ res = Response(0, EmptyRecord)
        /\ storeCalls = 0
        /\ classified = 0
        /\ emittedBy = "none"
        /\ forwardedErr = NoError
        /\ deleted = {}
        /\ ClientInit
        /\ ProcessInit
        /\ lastWrite = [id \in DOMAIN Seeded(n, k) |->
                           [op |-> IF Seeded(n, k)[id].isArchived THEN "toggle" ELSE "create",
                            wasArchived |-> FALSE]]

ListSeeded ==
    \E r \in SeededListRequests :
        /\ r.op = "list"
        /\ Serve(r)
        /\ UNCHANGED clientVars

NextList == ListSeeded

SpecList == InitList /\ [][NextList]_vars

(***************************************************************************)
(* services/api.ts: the client API adapter                                 *)
(***************************************************************************)
RETRY_ATTEMPTS == 3
RETRY_DELAY == 1000

NETWORK_ERROR_MSG == "Network error. Please check your connection."
SERVER_ERROR_MSG == "Server error. Please try again later."
CLIENT_VALIDATION_ERROR_MSG == "Please check your input and try again."
CLIENT_NOT_FOUND_MSG == "The requested item was not found."
CLIENT_UNAUTHORIZED_MSG == "You are not authorized to perform this action."
FETCH_NOTES_ERROR == "Failed to load notes. Please refresh the page."
CREATE_NOTE_ERROR == "Failed to create note. Please try again."
UPDATE_NOTE_ERROR == "Failed to update note. Please try again."
DELETE_NOTE_ERROR == "Failed to delete note. Please try again."

\* what one HTTP exchange gives axios: a response, or none (network failure)
Answered(response) == [answered |-> TRUE, status |-> response.status, body |-> response.body]

NoResponse == [answered |-> FALSE]

\* axios resolves on a 2xx status and rejects otherwise
Resolves(x) == x.answered /\ x.status >= 200 /\ x.status < 300

getErrorCode(status) ==
    CASE status = BAD_REQUEST -> "BAD_REQUEST"
      [] status = UNAUTHORIZED -> "UNAUTHORIZED"
      [] status = 403 -> "FORBIDDEN"
      [] status = NOT_FOUND -> "NOT_FOUND"
      [] status = CONFLICT -> "CONFLICT"
      [] status = 422 -> "VALIDATION_ERROR"
      [] status = INTERNAL_SERVER_ERROR -> "SERVER_ERROR"
      [] status = SERVICE_UNAVAILABLE -> "SERVICE_UNAVAILABLE"
      [] OTHER -> "HTTP_ERROR"

getStatusMessage(status) ==
    CASE status = BAD_REQUEST -> CLIENT_VALIDATION_ERROR_MSG
      [] status = UNAUTHORIZED -> CLIENT_UNAUTHORIZED_MSG
      [] status = NOT_FOUND -> CLIENT_NOT_FOUND_MSG
      [] OTHER -> SERVER_ERROR_MSG

\* handleError for a rejected axios request: the ApiError thrown
handleError(x) ==
    IF ~x.answered
    THEN [message |-> NETWORK_ERROR_MSG, code |-> "NETWORK_ERROR", status |-> 0]
    ELSE [message |->
              IF Has(x.body, "message") /\ x.body.message # ""
              THEN x.body.message
              ELSE IF Has(x.body, "errors") /\ x.body.errors # {}
              THEN (CHOOSE e \in x.body.errors : TRUE).message
              ELSE getStatusMessage(x.status),
          code |-> getErrorCode(x.status),
          status |-> x.status]

\* handleError for an Error thrown by the adapter itself
handleOwnError(message) == [message |-> message, code |-> "UNKNOWN_ERROR", status |-> 0]

\* mutant: a 4xx answer is retried like any other failure
retryRequestOnAnyFailure(x, sent) ==
    IF Resolves(x) THEN "return"
    ELSE IF sent = RETRY_ATTEMPTS THEN "throw"
    ELSE "retry"

\* the delay retryRequest waits after failed attempt i (from 0)
backoff(i) == RETRY_DELAY * 2^i

\* retryRequest after the attempt numbered sent (from 1) ended with x: return
\* the response, throw the error, or wait and try again
retryRequest(x, sent) ==
    IF Resolves(x) THEN "return"
    ELSE IF sent = RETRY_ATTEMPTS THEN "throw"
    ELSE IF x.answered /\ x.status >= 400 /\ x.status < 500 THEN "throw"
    ELSE "retry"

Returned(value) == [ok |-> TRUE, value |-> value]

Thrown(apiError) == [ok |-> FALSE, error |-> apiError]

NoResult == [ok |-> "pending"]

MissingDataError(kind) == IF kind = "create" THEN CREATE_NOTE_ERROR ELSE UPDATE_NOTE_ERROR

\* what the adapter function of a call hands to the hook for the exchange x
\* that ended its retry loop
apiResult(kind, x) ==
    IF ~Resolves(x) THEN Thrown(handleError(x))
    ELSE IF kind \in {"fetch", "refresh"}
    THEN Returned([data |-> IF Has(x.body, "data") THEN x.body.data ELSE <<>>,
                   pagination |->
                       IF Has(x.body, "pagination") THEN x.body.pagination
                       ELSE [currentPage |-> 1, totalPages |-> 1,
                             totalCount |-> IF Has(x.body, "data") THEN Len(x.body.data)
                                            ELSE 0,
                             hasNextPage |-> FALSE, hasPrevPage |-> FALSE, limit |-> 20]])
    ELSE IF kind = "delete" THEN Returned(Null)
    ELSE IF Has(x.body, "data") THEN Returned(x.body.data)
    ELSE Thrown(handleOwnError(MissingDataError(kind)))

\* getNotes: the query parameters built from the filters; a filter that is
\* falsy (page 0) is left out, archived is sent whenever it is defined; axios
\* writes numbers and booleans in their decimal and true/false forms
getNotesParams(filters) ==
    LET sent == {f \in DOMAIN filters :
                    \/ f = "archived"
                    \/ f \in {"page", "limit"} /\ filters[f] # 0
                    \/ f = "search" /\ filters[f] # <<>>
                    \/ f \in {"sortBy", "sortOrder"} /\ filters[f] # ""}
    IN  [f \in sent |->
            IF f \in {"page", "limit"} THEN DecimalString(filters[f])
            ELSE IF f = "archived" THEN (IF filters[f] THEN "true" ELSE "false")
            ELSE filters[f]]

\* the HTTP request the adapter function of a call sends
apiRequest(call, fault) ==
    CASE call.kind \in {"fetch", "refresh"} ->
            [op |-> "list", query |-> getNotesParams(call.filters), fault |-> fault]
      [] call.kind = "create" -> [op |-> "create", body |-> call.data, fault |-> fault]
      [] call.kind = "update" ->
            [op |-> "update", id |-> call.id, body |-> call.data, fault |-> fault]
      [] call.kind = "delete" -> [op |-> "delete", id |-> call.id, fault |-> fault]
      [] call.kind = "archive" -> [op |-> "toggle", id |-> call.id, fault |-> fault]

(***************************************************************************)
(* hooks/useNotes.ts: the operations of the hook                           *)
(***************************************************************************)
\* note.id === id on a list entry; an entry without an id field has
\* note.id undefined, which equals no id
SameId(note, id) == Has(note, "id") /\ note.id = id

\* fetchNotes up to its await
fetchStarted(h) == [h EXCEPT !.loadingState = "loading", !.error = Null]

\* refreshNotes up to its await
refreshStarted(h) == [h EXCEPT !.isRefreshing = TRUE, !.error = Null]

\* apiError.message || fallback
MessageOr(apiError, fallback) ==
    IF apiError.message # "" THEN apiError.message ELSE fallback

\* fetchNotes after its await
fetchSettled(h, result) ==
    IF result.ok
    THEN [h EXCEPT !.notes = result.value.data,
                   !.pagination = result.value.pagination,
                   !.loadingState = "success"]
    ELSE [h EXCEPT !.error = MessageOr(result.error, FETCH_NOTES_ERROR),
                   !.loadingState = "error"]

\* refreshNotes after its await
refreshSettled(h, result) ==
    IF result.ok
    THEN [h EXCEPT !.notes = result.value.data,
                   !.pagination = result.value.pagination,
                   !.isRefreshing = FALSE]
    ELSE [h EXCEPT !.error = MessageOr(result.error, FETCH_NOTES_ERROR),
                   !.isRefreshing = FALSE]

\* mutant: the created note is appended at the end of the list
createSettledAtEnd(h, result) ==
    IF result.ok
    THEN [h EXCEPT !.notes = Append(h.notes, result.value),
                   !.pagination.totalCount = h.pagination.totalCount + 1]
    ELSE h

\* createNote after its await
createSettled(h, result) ==
    IF result.ok
    THEN [h EXCEPT !.notes = <<result.value>> \o h.notes,
                   !.pagination.totalCount = h.pagination.totalCount + 1]
    ELSE h

\* mutant: a failed update is stored in the error state of the hook
updateSettledStoringError(h, id, result) ==
    IF result.ok
    THEN [h EXCEPT !.notes = [i \in DOMAIN h.notes |->
                                 IF SameId(h.notes[i], id) THEN result.value
                                 ELSE h.notes[i]]]
    ELSE [h EXCEPT !.error = MessageOr(result.error, UPDATE_NOTE_ERROR),
                   !.loadingState = "error"]

\* updateNote and archiveNote after their await
updateSettled(h, id, result) ==
    IF result.ok
    THEN [h EXCEPT !.notes = [i \in DOMAIN h.notes |->
                                 IF SameId(h.notes[i], id) THEN result.value
                                 ELSE h.notes[i]]]
    ELSE h

\* deleteNote after its await
deleteSettled(h, id, result) ==
    IF result.ok
    THEN [h EXCEPT !.notes = SelectSeq(h.notes, LAMBDA note : ~SameId(note, id)),
                   !.pagination.totalCount = h.pagination.totalCount - 1]
    ELSE h

\* the continuation of a call of the hook once its adapter function has
\* returned or thrown
Settled(h, call) ==
    CASE call.kind = "fetch" -> fetchSettled(h, call.result)
      [] call.kind = "refresh" -> refreshSettled(h, call.result)
      [] call.kind = "create" -> createSettled(h, call.result)
      [] call.kind \in {"update", "archive"} -> updateSettled(h, call.id, call.result)
      [] call.kind = "delete" -> deleteSettled(h, call.id, call.result)

MutatingKinds == {"create", "update", "delete", "archive"}

FallbackMessage(kind) ==
    CASE kind = "create" -> CREATE_NOTE_ERROR
      [] kind = "delete" -> DELETE_NOTE_ERROR
      [] OTHER -> UPDATE_NOTE_ERROR

\* the message of the Error a mutating operation rejects with; Null when the
\* promise of the call does not reject
Rejection(call) ==
    IF call.kind \in MutatingKinds /\ ~call.result.ok
    THEN MessageOr(call.result.error, FallbackMessage(call.kind))
    ELSE Null

\* clearError
clearError(h) ==
    [h EXCEPT !.error = Null,
              !.loadingState = IF h.loadingState = "error" THEN "idle" ELSE @]

(***************************************************************************)
(* The client: the hook and the adapter in front of the backend            *)
(***************************************************************************)
\* what the user of the hook passes to its operations
HookCreateData ==
    {[title |-> <<"a">>, content |-> <<"c">>], [title |-> <<>>, content |-> <<"c">>]}

HookPatches == {[title |-> <<"b">>]}

HookIds == {ObjectId(1), ObjectId(2)}

HookFilters == {[archived |-> TRUE], [page |-> 2, limit |-> 1]}

\* { ...prev, ...newFilters }
Spread(prev, new) ==
    [f \in DOMAIN prev \cup DOMAIN new |-> IF f \in DOMAIN new THEN new[f] ELSE prev[f]]

\* a call of a hook operation; fetchNotes and refreshNotes read the filters of
\* the render they were made in
NewCall(h, kind, id, data) ==
    [kind |-> kind, id |-> id, data |-> data, filters |-> h.filters, sent |-> 0,
     waits |-> <<>>, phase |-> "requesting", result |-> NoResult]

\* the user acts once the pending effects have run; the model follows
\* MaxCalls calls
CanCall == mounted /\ hook.error = Null /\ nextCall <= MaxCalls

\* a hook operation is called: it runs up to its await, leaving the hook as h
Start(h, kind, id, data) ==
    /\ hook' = h
    /\ inFlight' = [c \in DOMAIN inFlight \cup {nextCall} |->
                       IF c = nextCall THEN NewCall(h, kind, id, data) ELSE inFlight[c]]
    /\ nextCall' = nextCall + 1
    /\ lastStep' = [op |-> "start", call |-> nextCall, kind |-> kind]
    /\ UNCHANGED <<serverVars, mounted, settled>>

HookFetchNotes ==
    /\ CanCall
    /\ Start(fetchStarted(hook), "fetch", Null, EmptyRecord)

HookRefreshNotes ==
    /\ CanCall
    /\ Start(refreshStarted(hook), "refresh", Null, EmptyRecord)

HookCreateNote ==
    \E data \in HookCreateData :
        /\ CanCall
        /\ Start(hook, "create", Null, data)

HookUpdateNote ==
    \E id \in HookIds, data \in HookPatches :
        /\ CanCall
        /\ Start(hook, "update", id, data)

HookDeleteNote ==
    \E id \in HookIds :
        /\ CanCall
        /\ Start(hook, "delete", id, EmptyRecord)

HookArchiveNote ==
    \E id \in HookIds :
        /\ CanCall
        /\ Start(hook, "archive", id, EmptyRecord)

\* what retryRequest and the adapter function make of the end of one attempt
AfterAttempt(c, x) ==
    LET call == inFlight[c]
        sent == call.sent + 1
    IN  /\ inFlight' =
              [inFlight EXCEPT ![c] =
                  IF retryRequest(x, sent) = "retry"
                  THEN [call EXCEPT !.sent = sent,
                                    !.waits = Append(@, backoff(sent - 1))]
                  ELSE [call EXCEPT !.sent = sent, !.phase = "settling",
                                    !.result = apiResult(call.kind, x)]]
        /\ lastStep' = [op |-> "request", call |-> c, kind |-> call.kind, sent |-> sent,
                        x |-> x]
        /\ UNCHANGED <<hook, nextCall, mounted, settled>>

\* one attempt of a call reaches the backend and is answered
Request ==
    \E c \in DOMAIN inFlight, fault \in Faults :
        /\ inFlight[c].phase = "requesting"
        /\ Serve(apiRequest(inFlight[c], fault))
        /\ AfterAttempt(c, Answered(res'))

\* one attempt of a call gets no response
RequestUnanswered ==
    \E c \in DOMAIN inFlight :
        /\ inFlight[c].phase = "requesting"
        /\ UNCHANGED serverVars
        /\ AfterAttempt(c, NoResponse)

setStateWhileUnmounted(h, call) == Settled(h, call)

\* the state setters called by a continuation: React applies the updates of
\* a mounted component and drops those of an unmounted one
setState(h, call) == IF mounted THEN Settled(h, call) ELSE h

\* the hook operation resumes after its await
Settle ==
    \E c \in DOMAIN inFlight :
        /\ inFlight[c].phase = "settling"
        /\ mounted => hook.error = Null
        /\ hook' = setState(hook, inFlight[c])
        /\ settled' = Append(settled, [call |-> c, request |-> inFlight[c],
                                       with |-> DOMAIN inFlight \ {c}])
        /\ inFlight' = [k \in DOMAIN inFlight \ {c} |-> inFlight[k]]
        /\ lastStep' = [op |-> "settle", call |-> c, kind |-> inFlight[c].kind,
                        id |-> inFlight[c].id, result |-> inFlight[c].result,
                        rejection |-> Rejection(inFlight[c])]
        /\ UNCHANGED <<serverVars, nextCall, mounted>>

\* the effect on [filters, error]: it runs after every render in which the
\* error is set, before anything else happens to the hook
ErrorEffect ==
    /\ mounted
    /\ hook.error # Null
    /\ hook' = [hook EXCEPT !.error = Null]
    /\ lastStep' = [op |-> "effect"]
    /\ UNCHANGED <<serverVars, inFlight, nextCall, mounted, settled>>

\* updateFilters; the new fetchNotes makes the auto-fetch effect fetch again
HookUpdateFilters ==
    \E newFilters \in HookFilters :
        /\ CanCall
        /\ Start(fetchStarted([hook EXCEPT !.filters = Spread(hook.filters, newFilters)]),
                 "fetch", Null, EmptyRecord)

\* clearError called when the hook shows the error state (elsewhere it changes
\* nothing)
HookClearError ==
    /\ mounted
    /\ hook.error = Null
    /\ hook.loadingState = "error"
    /\ hook' = clearError(hook)
    /\ lastStep' = [op |-> "clearError"]
    /\ UNCHANGED <<serverVars, inFlight, nextCall, mounted, settled>>

\* the backend holds one note when the page is opened
InitClient ==
    /\ notes = Seeded(1, 0)
    /\ nextId = 2
    /\ now = 1
    /\ req = [op |-> "none"]
    /\ res = Response(0, EmptyRecord)
    /\ storeCalls = 0
    /\ classified = 0
    /\ emittedBy = "none"
    /\ forwardedErr = NoError
    /\ deleted = {}
    /\ lastWrite = [id \in DOMAIN Seeded(1, 0) |-> [op |-> "create", wasArchived |-> FALSE]]
    /\ ClientInit
    /\ ProcessInit

NextClient ==
    \/ HookFetchNotes
    \/ HookRefreshNotes
    \/ HookCreateNote
    \/ HookUpdateNote
    \/ HookDeleteNote
    \/ HookArchiveNote
    \/ HookUpdateFilters
    \/ HookClearError
    \/ Request
    \/ RequestUnanswered
    \/ Settle
    \/ ErrorEffect

SpecClient == InitClient /\ [][NextClient]_vars

\* the view that uses the hook is unmounted; requests in flight are not
\* cancelled
Unmount ==
    /\ mounted
    /\ mounted' = FALSE
    /\ lastStep' = [op |-> "unmount"]
    /\ UNCHANGED <<serverVars, hook, inFlight, nextCall, settled>>

NextView ==
    \/ NextClient
    \/ Unmount

SpecView == InitClient /\ [][NextView]_vars

\* the hook after createNote was confirmed for the first note of the store
CachedHook ==
    [InitialHook EXCEPT !.notes = <<toJSON(Seeded(1, 0)[ObjectId(1)])>>,
                        !.pagination.totalCount = 1]

\* the page holds the note it created
InitCached ==
    /\ notes = Seeded(1, 0)
    /\ nextId = 2
    /\ now = 1
    /\ req = [op |-> "none"]
    /\ res = Response(0, EmptyRecord)
    /\ storeCalls = 0
    /\ classified = 0
    /\ emittedBy = "none"
    /\ forwardedErr = NoError
    /\ deleted = {}
    /\ lastWrite = [id \in DOMAIN Seeded(1, 0) |-> [op |-> "create", wasArchived |-> FALSE]]
    /\ hook = CachedHook
    /\ inFlight = EmptyRecord
    /\ nextCall = 1
    /\ lastStep = NoStep
    /\ mounted = TRUE
    /\ settled = <<>>
    /\ ProcessInit

SpecCache == InitCached /\ [][NextClient]_vars

\* the ways one attempt of a request can end: a 2xx answer, a 4xx answer, a
\* 5xx answer, no response
Exchanges(call) ==
    {IF call.kind \in {"fetch", "refresh"}
     THEN Answered(getNotes(getNotesParams(call.filters), "none").res)
     ELSE Answered(Response(OK, [success |-> TRUE, data |-> toJSON(SeededNote(1, 1, 0))])),
     Answered(Response(NOT_FOUND, [success |-> FALSE, message |-> NOTE_NOT_FOUND_MSG])),
     Answered(Response(INTERNAL_SERVER_ERROR,
                       [success |-> FALSE, message |-> "Internal server error"])),
     Answered(Response(SERVICE_UNAVAILABLE, [success |-> FALSE, message |-> ""])),
     NoResponse}

\* one attempt of a call ends in one of these ways
Attempt ==
    \E c \in DOMAIN inFlight :
        /\ inFlight[c].phase = "requesting"
        /\ \E x \in Exchanges(inFlight[c]) : AfterAttempt(c, x)
        /\ UNCHANGED serverVars

\* retryRequest under a read and a write of the hook, the request function
\* ending in any of the ways above
NextRetry ==
    \/ HookFetchNotes
    \/ HookUpdateNote
    \/ Attempt
    \/ Settle
    \/ ErrorEffect

\* every attempt ends, answered or not: axios gives up after TIMEOUT
SpecRetry ==
    /\ InitClient
    /\ [][NextRetry]_vars
    /\ WF_vars(Attempt)

(***************************************************************************)
(* The backend under concurrent requests: a handler gives way at each      *)
(* await, and the store runs one query at a time, in any order.            *)
(***************************************************************************)
MaxHandlers == 3

\* an answer of getNotes from the page its find query returned and the number
\* its countDocuments query returned
listAnswer(params, data, totalCount) ==
    LET page == Param(params, "page", <<"1">>)
        limit == Param(params, "limit", <<"5", "0">>)
        totalPages == Ceil(totalCount, ParseInt(limit))
    IN  Response(OK,
                 [success |-> TRUE,
                  data |-> data,
                  pagination |->
                      [currentPage |-> ParseInt(page),
                       totalPages |-> totalPages,
                       totalCount |-> totalCount,
                       hasNextPage |-> ToNumber(page) < totalPages,
                       hasPrevPage |-> ToNumber(page) > 1,
                       limit |-> ParseInt(limit)]])

\* the filter and the sort of getNotes applied to the store as it is now
listFound(params) ==
    Find(notes, Param(params, "archived", "false") = "true", Param(params, "search", <<>>),
         Param(params, "sortBy", "createdAt"), Param(params, "sortOrder", "desc") = "desc")

listSkip(params) ==
    (ParseInt(Param(params, "page", <<"1">>)) - 1)
        * ParseInt(Param(params, "limit", <<"5", "0">>))

ConcurrentQueries == {EmptyRecord, [page |-> <<"2">>, limit |-> <<"1">>]}

NoAnswer == Response(0, EmptyRecord)

\* PATCH /:id/archive reaches toggleArchiveNote, which awaits findById
ToggleArrives ==
    \E id \in HookIds :
        /\ Len(pending) < MaxHandlers
        /\ pending' = Append(pending, [op |-> "toggle", id |-> id, phase |-> "findById",
                                       found |-> FALSE, res |-> NoAnswer])
        /\ UNCHANGED <<storeVars, proc, clientVars>>

\* findById resolves: no document is answered with 404, a document has its
\* flag flipped in memory and save() is awaited
ToggleFind ==
    \E h \in DOMAIN pending :
        /\ pending[h].op = "toggle"
        /\ pending[h].phase = "findById"
        /\ pending' =
              [pending EXCEPT ![h] =
                  IF pending[h].id \in DOMAIN notes
                  THEN [op |-> "toggle", id |-> pending[h].id, phase |-> "save",
                        found |-> TRUE, note |-> notes[pending[h].id], res |-> NoAnswer]
                  ELSE [@ EXCEPT !.phase = "answered", !.res = NotFoundSent(1).res]]
        /\ UNCHANGED <<storeVars, proc, clientVars>>

\* the value of isArchived save() writes: the one set on the document in
\* memory, the flag read by findById flipped
savedFlag(h) == ~pending[h].note.isArchived

\* save() resolves: the modified path and updatedAt are written to the stored
\* document; a document deleted in between makes save() throw
ToggleSave ==
    \E h \in DOMAIN pending :
        /\ pending[h].op = "toggle"
        /\ pending[h].phase = "save"
        /\ IF pending[h].id \in DOMAIN notes
           THEN LET updatedNote == [pending[h].note EXCEPT !.isArchived = savedFlag(h),
                                                           !.updatedAt = now + 1]
                IN  /\ notes' = [notes EXCEPT ![pending[h].id] =
                                    [@ EXCEPT !.isArchived = savedFlag(h),
                                              !.updatedAt = now + 1]]
                    /\ now' = now + 1
                    /\ pending' =
                          [pending EXCEPT ![h] =
                              [@ EXCEPT !.phase = "answered",
                                        !.res = Response(OK,
                                            [success |-> TRUE,
                                             message |-> IF updatedNote.isArchived
                                                         THEN "Note archived successfully"
                                                         ELSE "Note unarchived successfully",
                                             data |-> toJSON(updatedNote)])]]
           ELSE /\ pending' =
                      [pending EXCEPT ![h] =
                          [@ EXCEPT !.phase = "answered",
                                    !.res = errorHandler(GenericError)]]
                /\ UNCHANGED <<notes, now>>
        /\ UNCHANGED <<nextId, req, res, storeCalls, classified, emittedBy, lastWrite,
                       forwardedErr, deleted, proc, clientVars>>

\* GET / reaches getNotes, which starts its two queries and awaits both
ListArrives ==
    \E query \in ConcurrentQueries :
        /\ Len(pending) < MaxHandlers
        /\ pending' = Append(pending, [op |-> "list", query |-> query, phase |-> "queries",
                                       findDone |-> FALSE, countDone |-> FALSE,
                                       data |-> <<>>, totalCount |-> 0, res |-> NoAnswer])
        /\ UNCHANGED <<storeVars, proc, clientVars>>

\* Promise.all resolves when both queries have
listSettled(h) ==
    IF h.findDone /\ h.countDone
    THEN [h EXCEPT !.phase = "answered",
                   !.res = listAnswer(h.query, h.data, h.totalCount)]
    ELSE h

\* the find query runs
ListFind ==
    \E h \in DOMAIN pending :
        /\ pending[h].op = "list"
        /\ ~pending[h].findDone
        /\ pending' =
              [pending EXCEPT ![h] =
                  listSettled([@ EXCEPT !.findDone = TRUE,
                                        !.data = Page(listFound(pending[h].query),
                                                      listSkip(pending[h].query),
                                                      ParseInt(Param(pending[h].query,
                                                                     "limit",
                                                                     <<"5", "0">>)))])]
        /\ UNCHANGED <<storeVars, proc, clientVars>>

\* the countDocuments query runs
ListCount ==
    \E h \in DOMAIN pending :
        /\ pending[h].op = "list"
        /\ ~pending[h].countDone
        /\ pending' =
              [pending EXCEPT ![h] =
                  listSettled([@ EXCEPT !.countDone = TRUE,
                                        !.totalCount = Len(listFound(pending[h].query))])]
        /\ UNCHANGED <<storeVars, proc, clientVars>>

\* a create request is handled: one save()
CreateBetween ==
    /\ nextId <= MaxNotes
    /\ Serve([op |-> "create", body |-> [title |-> <<"a">>, content |-> <<"c">>],
              fault |-> "none"])
    /\ UNCHANGED clientVars

\* a delete request is handled: one findByIdAndDelete
DeleteBetween ==
    \E id \in HookIds :
        /\ id \in DOMAIN notes
        /\ Serve([op |-> "delete", id |-> id, fault |-> "none"])
        /\ UNCHANGED clientVars

NextConcurrent ==
    \/ ToggleArrives
    \/ ToggleFind
    \/ ToggleSave
    \/ ListArrives
    \/ ListFind
    \/ ListCount
    \/ CreateBetween
    \/ DeleteBetween

SpecConcurrent == InitClient /\ [][NextConcurrent]_vars

(***************************************************************************)
(* Properties                                                              *)
(***************************************************************************)
PatchFields == {"title", "content", "tags", "isArchived"}

\* the length bounds of the data model on the title and content of a body
WithinLengthBounds(b) ==
    /\ Has(b, "title") =>
          /\ Len(Trim(b.title)) >= TITLE_MIN_LENGTH
          /\ Len(Trim(b.title)) <= TITLE_MAX_LENGTH
    /\ Has(b, "content") =>
          /\ Len(Trim(b.content)) >= CONTENT_MIN_LENGTH
          /\ Len(Trim(b.content)) <= CONTENT_MAX_LENGTH

ReachedController == emittedBy # "handleValidationErrors" /\ storeCalls >= 1

\* C1: a PUT with a well-formed id and a body carrying at least one of title,
\* content, tags, isArchived (each valid) passes validation and reaches the
\* repository; a body carrying none of the four is answered 400 before any
\* store call.
C1_UpdateNeedsOneOfFourFields ==
    (req.op = "update" /\ IsMongoId(req.id)) =>
        IF DOMAIN req.body \cap PatchFields = {}
        THEN res.status = BAD_REQUEST /\ storeCalls = 0
        ELSE WithinLengthBounds(req.body) => ReachedController

ListAnswered == req.op = "list" /\ res.status = OK

SearchGiven == Has(req.query, "search") /\ Trim(req.query.search) # <<>>

ArchivedWanted == Has(req.query, "archived") /\ req.query.archived = "true"

SortField == Param(req.query, "sortBy", "createdAt")

SortDescending == Param(req.query, "sortOrder", "desc") = "desc"

\* a and b are in the order the request asks for
InRequestedOrder(a, b) ==
    IF SortField = "title"
    THEN IF SortDescending THEN ~StrLess(a.title, b.title) ELSE ~StrLess(b.title, a.title)
    ELSE IF SortDescending THEN a[SortField] >= b[SortField]
         ELSE a[SortField] <= b[SortField]

\* C2 as stated: with a non-blank search string every returned note is
\* non-archived whatever the archived parameter says and the results are
\* ordered by relevance score descending; without one the filter is exact
\* isArchived equality.
C2_SearchListsActiveByRelevance ==
    ListAnswered =>
        LET data == res.body.data
        IN  IF SearchGiven
            THEN /\ \A i \in 1..Len(data) : ~data[i].isArchived
                 /\ \A i, j \in 1..Len(data) :
                        i < j => TextScore(data[i], req.query.search)
                                 >= TextScore(data[j], req.query.search)
            ELSE \A i \in 1..Len(data) : data[i].isArchived = ArchivedWanted

\* C2 amended: with or without a search string every returned note has
\* isArchived equal to the archived parameter (default false) and, when a
\* search string is given, matches it; all such notes are counted; the results
\* are ordered by the requested sortBy and sortOrder (default createdAt
\* descending), also when a search string is given.
C2_ListFiltersByArchivedAndSortsBySortBy ==
    ListAnswered =>
        LET data == res.body.data
            wanted == {i \in DOMAIN notes :
                          /\ notes[i].isArchived = ArchivedWanted
                          /\ SearchGiven => TextMatch(notes[i], req.query.search)}
        IN  /\ \A i \in 1..Len(data) : data[i]._id \in wanted
            /\ res.body.pagination.totalCount = Cardinality(wanted)
            /\ \A i, j \in 1..Len(data) : i < j => InRequestedOrder(data[i], data[j])

C2_Witness ==
    /\ ListAnswered
    /\ SearchGiven
    /\ ArchivedWanted
    /\ Len(res.body.data) >= 1

\* C3: the entity of every 201 response to a create has a non-empty id,
\* createdAt equal to updatedAt and isArchived false, whatever extra fields
\* the request body carries.
C3_CreatedEntityIsFresh ==
    (req.op = "create" /\ res.status = CREATED) =>
        LET data == res.body.data
        IN  /\ data.id # <<>>
            /\ data.createdAt = data.updatedAt
            /\ data.isArchived = FALSE
            /\ data.id \in DOMAIN notes
            /\ toJSON(notes[data.id]) = data

C3_Witness ==
    /\ req.op = "create"
    /\ res.status = CREATED
    /\ Has(req.body, "isArchived") /\ req.body.isArchived
    /\ Has(req.body, "id") /\ Has(req.body, "createdAt")

C5_ToggleFlipsAndTwiceRestores ==
    [][(req'.op = "toggle" /\ res'.status = OK) =>
          /\ req'.id \in DOMAIN notes /\ req'.id \in DOMAIN notes'
          /\ res'.body.data.isArchived = ~notes[req'.id].isArchived
          /\ notes'[req'.id].isArchived = ~notes[req'.id].isArchived
          /\ lastWrite[req'.id].op = "toggle" =>
                notes'[req'.id].isArchived = lastWrite[req'.id].wasArchived]_vars

\* a successful toggle has brought a note back to not archived: the note was
\* created not archived, archived by one toggle and restored by this one
C5_Witness ==
    /\ req.op = "toggle"
    /\ res.status = OK
    /\ lastWrite[req.id].op = "toggle"
    /\ lastWrite[req.id].wasArchived
    /\ ~notes[req.id].isArchived
    /\ notes[req.id].updatedAt >= notes[req.id].createdAt + 2

PagedAnswered ==
    /\ ListAnswered
    /\ Has(req.query, "page") /\ Has(req.query, "limit")
    /\ ParseInt(req.query.limit) >= 1

RequestedPage == ParseInt(req.query.page)

RequestedLimit == ParseInt(req.query.limit)

\* the number of notes on page p of the listing the request asks for, over
\* the store as it is
PageSize(p) ==
    Len(getNotes([req.query EXCEPT !.page = DecimalString(p)], "none").res.body.data)

RECURSIVE SumPageSizes(_)
SumPageSizes(n) == IF n = 0 THEN 0 ELSE PageSize(n) + SumPageSizes(n - 1)

\* the page count is the least number of pages of the limit that hold the
\* count, the page sizes sum to the count, and hasPrevPage = (page > 1)
PageArithmetic ==
    LET p == res.body.pagination
    IN  /\ p.totalPages * RequestedLimit >= p.totalCount
        /\ p.totalPages > 0 => (p.totalPages - 1) * RequestedLimit < p.totalCount
        /\ p.totalPages >= 0
        /\ SumPageSizes(p.totalPages) = p.totalCount
        /\ Len(res.body.data) = PageSize(RequestedPage)
        /\ p.hasPrevPage = (RequestedPage > 1)
        /\ (p.totalCount = 47 /\ RequestedLimit = 10 /\ RequestedPage = 5) =>
              /\ Len(res.body.data) = 7
              /\ p.totalPages = 5
              /\ p.hasNextPage = FALSE

\* the last page of a listing; an empty listing has the single page 1
LastPage ==
    IF res.body.pagination.totalPages = 0 THEN 1 ELSE res.body.pagination.totalPages

\* C6 as stated: over an unchanging store, for any filter and limit >= 1,
\* totalPages = ceil(totalCount/limit), the page sizes sum to totalCount,
\* hasPrevPage = (page > 1), and hasNextPage is false exactly on the last page
\* and true on every other requested page.
C6_NextPageFalseExactlyOnLastPage ==
    PagedAnswered =>
        /\ PageArithmetic
        /\ res.body.pagination.hasNextPage = (RequestedPage # LastPage)

\* C6 amended: totalPages = ceil(totalCount/limit), the page sizes sum to
\* totalCount, hasPrevPage = (page > 1), and hasNextPage = (page < totalPages):
\* true on every page before the last, false on the last page and on every
\* page requested beyond it; 47 notes with limit 10 give page 5 seven items,
\* totalPages 5 and hasNextPage false.
C6_NextPageTrueExactlyBeforeLastPage ==
    PagedAnswered =>
        /\ PageArithmetic
        /\ res.body.pagination.hasNextPage = (RequestedPage < LastPage)

C6_Witness ==
    /\ PagedAnswered
    /\ res.body.pagination.totalCount = 47
    /\ RequestedLimit = 10
    /\ RequestedPage = 5
    /\ Len(res.body.data) = 7

\* a patch or a new note the data model accepts: at least one of the four
\* fields for a patch, title and content within their length bounds
AcceptablePatch(b) == DOMAIN b \cap PatchFields # {} /\ WithinLengthBounds(b)

Success == res.status >= 200 /\ res.status <= 299

\* C7: a create or update whose trimmed title has exactly 200 characters is
\* accepted with a 2xx response and persisted, and one whose trimmed title has
\* 201 characters is rejected with 400 and errors naming the field title,
\* whatever characters the title consists of.
C7_TitleBoundaryWhateverCharacters ==
    (/\ req.op \in {"create", "update"}
     /\ req.fault = "none"
     /\ Has(req.body, "title")
     /\ req.op = "create" => Has(req.body, "content") /\ WithinLengthBounds([content |-> req.body.content])
     /\ req.op = "update" => req.id \in DOMAIN notes) =>
        /\ Len(Trim(req.body.title)) = TITLE_MAX_LENGTH =>
              /\ Success
              /\ \E i \in DOMAIN notes : notes[i].title = Escape(Trim(req.body.title))
        /\ Len(Trim(req.body.title)) = TITLE_MAX_LENGTH + 1 =>
              /\ res.status = BAD_REQUEST
              /\ Has(res.body, "errors")
              /\ \E e \in res.body.errors : e.field = "title"

IdOps == {"getById", "update", "delete", "toggle"}

\* C8: for get-by-id, update, delete and toggle-archive, an id that is not in
\* the identifier format is answered 400 without a store call, a well-formed
\* id that matches no note is answered 404 with the message Note not found,
\* and the two outcomes never coincide.
C8_MalformedIdIs400UnmatchedIdIs404 ==
    [][req'.op \in IdOps =>
          /\ ~IsMongoId(req'.id) =>
                /\ res'.status = BAD_REQUEST
                /\ storeCalls' = 0
                /\ res'.body.message # NOTE_NOT_FOUND_MSG
          /\ (/\ IsMongoId(req'.id)
              /\ req'.id \notin DOMAIN notes
              /\ req'.fault = "none"
              /\ req'.op = "update" => AcceptablePatch(req'.body)) =>
                /\ res'.status = NOT_FOUND
                /\ res'.body.message = NOTE_NOT_FOUND_MSG]_vars

UnderApiNotes ==
    req.op \in {"list", "search", "getById", "create", "update", "toggle", "delete",
                "malformedJson"}

FailureResponse ==
    /\ res.status >= 400
    /\ Has(res.body, "success")
    /\ res.body.success = FALSE

StoreFailed == Has(req, "fault") /\ req.fault # "none" /\ storeCalls >= 1

\* C9 as stated: every failure response to a request under /api/notes is
\* emitted by the central error classifier, reached exactly once for that
\* request; no request handler emits a failure status itself.
C9_EveryFailureFromClassifier ==
    (UnderApiNotes /\ FailureResponse) =>
        /\ emittedBy = "errorHandler"
        /\ classified = 1

\* C9 amended: every error a handler or the body parser raises is passed to
\* the central classifier, which answers it exactly once, and every 5xx
\* response comes from it; a request that fails validation is answered 400 by
\* the validation middleware before any store call, and a handler itself
\* answers 404 Note not found for an unmatched id and 400 for a blank search
\* query; no failure is answered from anywhere else.
C9_ThrownErrorsReachClassifierOnce ==
    UnderApiNotes =>
        /\ classified <= 1
        /\ classified = 1 <=> emittedBy = "errorHandler"
        /\ StoreFailed => emittedBy = "errorHandler"
        /\ res.status >= 500 => emittedBy = "errorHandler"
        /\ FailureResponse =>
              \/ emittedBy = "errorHandler"
              \/ /\ emittedBy = "handleValidationErrors"
                 /\ res.status = BAD_REQUEST
                 /\ storeCalls = 0
              \/ /\ emittedBy = "controller"
                 /\ \/ res.status = NOT_FOUND /\ res.body.message = NOTE_NOT_FOUND_MSG
                    \/ req.op = "search" /\ res.status = BAD_REQUEST /\ storeCalls = 0

C9_Witness ==
    /\ req.op = "update"
    /\ StoreFailed
    /\ FailureResponse
    /\ emittedBy = "errorHandler"
    /\ classified = 1

PaginationFields ==
    {"currentPage", "totalPages", "totalCount", "hasNextPage", "hasPrevPage", "limit"}

Enveloped ==
    /\ Has(res.body, "success")
    /\ res.body.success \in BOOLEAN
    /\ res.body.success = Success

ListPaginated ==
    ListAnswered =>
        /\ Has(res.body, "pagination")
        /\ DOMAIN res.body.pagination = PaginationFields
        /\ res.body.pagination.hasNextPage \in BOOLEAN
        /\ res.body.pagination.hasPrevPage \in BOOLEAN

ConnectionFailure(e) ==
    \/ e.class \in {"MongoNetworkError", "MongooseServerSelectionError"}
    \/ e.code = "ENOTFOUND"

SchemaViolation(e) == e.class = "ValidationError"

MalformedIdentifier(e) == e.class = "CastError"

\* C11: the error classifier answers every error passed to it once, with
\* success false and the status of its kind: schema validation error 400 with
\* an errors list, malformed-identifier cast error 400, store connection or
\* network failure 503, and anything else (here a body that is not JSON, a
\* rejected query) 500.
C11_ClassifierTaxonomy ==
    classified = 1 =>
        /\ emittedBy = "errorHandler"
        /\ res.body.success = FALSE
        /\ res.status =
              IF SchemaViolation(forwardedErr) \/ MalformedIdentifier(forwardedErr)
              THEN BAD_REQUEST
              ELSE IF ConnectionFailure(forwardedErr) THEN SERVICE_UNAVAILABLE
              ELSE INTERNAL_SERVER_ERROR
        /\ SchemaViolation(forwardedErr) => Has(res.body, "errors")

\* the bounds of the data model on one stored note
NoteWithinBounds(d) ==
    /\ Len(Trim(d.title)) >= TITLE_MIN_LENGTH
    /\ Len(Trim(d.title)) <= TITLE_MAX_LENGTH
    /\ Len(Trim(d.content)) >= CONTENT_MIN_LENGTH
    /\ Len(Trim(d.content)) <= CONTENT_MAX_LENGTH
    /\ Len(d.tags) <= MAX_TAGS

StoredNotesWithinBounds == \A i \in DOMAIN notes : NoteWithinBounds(notes[i])

\* the number of tags of a body that are not blank
TagCount(b) ==
    IF Has(b, "tags") THEN Cardinality({i \in 1..Len(b.tags) : Trim(b.tags[i]) # <<>>})
    ELSE 0

\* a create or update whose note would lie outside the bounds
WouldBreakBounds(r) ==
    /\ r.op \in {"create", "update"}
    /\ \/ ~WithinLengthBounds(r.body)
       \/ TagCount(r.body) > MAX_TAGS
       \/ r.op = "create" /\ ~(Has(r.body, "title") /\ Has(r.body, "content"))

\* C12: in every reachable state every stored note has a title of 1 to 200
\* and a content of 1 to 10000 characters after trimming and at most 10 tags,
\* and a create or update that would break this is answered 400 and leaves
\* the store as it was.
C12_StoredNotesStayWithinBounds ==
    /\ []StoredNotesWithinBounds
    /\ [][WouldBreakBounds(req') => (res'.status = BAD_REQUEST /\ notes' = notes)]_vars

C12_Witness ==
    /\ req.op = "update"
    /\ TagCount(req.body) > MAX_TAGS
    /\ req.id \in DOMAIN notes
    /\ res.status = BAD_REQUEST
    /\ StoredNotesWithinBounds

\* every stored note is held under its own id and was not updated before it
\* was created
IdentityAndOrder ==
    \A i \in DOMAIN notes :
        /\ notes[i]._id = i
        /\ notes[i].updatedAt >= notes[i].createdAt

\* over one request: a note that stays keeps id and createdAt, a new note
\* takes both timestamps from the server clock, and no stored note carries an
\* id, createdAt or updatedAt the request body supplied
IdentityKept ==
    /\ \A i \in DOMAIN notes \cap DOMAIN notes' :
          /\ notes'[i]._id = notes[i]._id
          /\ notes'[i].createdAt = notes[i].createdAt
    /\ \A i \in DOMAIN notes' \ DOMAIN notes :
          /\ notes'[i].createdAt = now'
          /\ notes'[i].updatedAt = now'
    /\ Has(req', "body") =>
          \A i \in DOMAIN notes' :
              /\ Has(req'.body, "id") => notes'[i]._id # req'.body.id
              /\ Has(req'.body, "createdAt") => notes'[i].createdAt # req'.body.createdAt
              /\ Has(req'.body, "updatedAt") => notes'[i].updatedAt # req'.body.updatedAt

\* C13: the id and createdAt of a note never change under update and
\* toggle-archive requests, an id, createdAt or updatedAt supplied in a request
\* body is never stored, and updatedAt >= createdAt holds for every note in
\* every reachable state.
C13_IdAndCreatedAtImmutable ==
    /\ []IdentityAndOrder
    /\ [][IdentityKept]_vars

C13_Witness ==
    /\ req.op = "update"
    /\ res.status = OK
    /\ Has(req.body, "createdAt") /\ Has(req.body, "id")
    /\ notes[req.id].updatedAt > notes[req.id].createdAt

\* a request on the id of a deleted note that nothing else stops: the store
\* call does not fail and, for an update, the patch is one the data model accepts
UnhinderedOnDeleted(r) ==
    /\ r.op \in IdOps
    /\ r.id \in deleted
    /\ r.fault = "none"
    /\ r.op = "update" => AcceptablePatch(r.body)

\* C14: after a successful delete of an id every later get-by-id, update,
\* toggle-archive or delete on it is answered 404, the note appears in no
\* later list or search result and is never in the store again, and no later
\* create is given that id.
C14_DeletedStaysDeleted ==
    /\ [](deleted \cap DOMAIN notes = {})
    /\ [][/\ UnhinderedOnDeleted(req') => res'.status = NOT_FOUND
          /\ (req'.op \in {"list", "search"} /\ res'.status = OK) =>
                \A k \in 1..Len(res'.body.data) : res'.body.data[k]._id \notin deleted
          /\ (req'.op = "create" /\ res'.status = CREATED) =>
                res'.body.data.id \notin deleted]_vars

\* the step taken is one of a call of the given kinds: its start, one of its
\* requests, or its continuation
StepOf(op, kinds) ==
    /\ lastStep'.op = op
    /\ lastStep'.kind \in kinds

TotalCount(h) == h.pagination.totalCount

\* C15: createNote of the hook changes the list and totalCount only after
\* the API call has resolved successfully: its start and its requests leave
\* both unchanged, and on success the note the server returned is put at the
\* front of the list and totalCount grows by exactly 1.
C15_CreateInsertsOnConfirmation ==
    [][/\ (StepOf("start", {"create"}) \/ StepOf("request", {"create"})) =>
              (hook'.notes = hook.notes /\ hook'.pagination = hook.pagination)
       /\ (StepOf("request", {"create"}) /\ lastStep'.x.answered /\ res'.status = CREATED) =>
              inFlight'[lastStep'.call].result = Returned(toJSON(notes'[res'.body.data.id]))
       /\ (StepOf("settle", {"create"}) /\ lastStep'.result.ok) =>
              /\ hook'.notes = <<lastStep'.result.value>> \o hook.notes
              /\ TotalCount(hook') = TotalCount(hook) + 1
              /\ hook'.pagination = [hook.pagination EXCEPT !.totalCount = @ + 1]]_vars

C15_Witness ==
    /\ lastStep.op = "settle"
    /\ lastStep.kind = "create"
    /\ lastStep.result.ok
    /\ Len(hook.notes) = 2
    /\ hook.notes[1] = lastStep.result.value
    /\ hook.pagination.totalCount = 2

\* C16: when the API call of createNote, updateNote, deleteNote or
\* archiveNote fails, the call leaves the notes list, pagination,
\* loadingState and error of the hook unchanged, from its start to its end,
\* and the promise rejects with an Error whose message is not empty.
C16_FailedMutationLeavesHook ==
    [][/\ (StepOf("start", MutatingKinds) \/ StepOf("request", MutatingKinds)) =>
              hook' = hook
       /\ (StepOf("settle", MutatingKinds) /\ ~lastStep'.result.ok) =>
              /\ hook'.notes = hook.notes
              /\ hook'.pagination = hook.pagination
              /\ hook'.loadingState = hook.loadingState
              /\ hook'.error = hook.error
              /\ lastStep'.rejection \notin {Null, ""}
       /\ (StepOf("settle", MutatingKinds) /\ lastStep'.result.ok) =>
              lastStep'.rejection = Null]_vars

C16_Witness ==
    /\ lastStep.op = "settle"
    /\ lastStep.kind = "update"
    /\ ~lastStep.result.ok
    /\ lastStep.result.error.status = NOT_FOUND
    /\ lastStep.rejection = NOTE_NOT_FOUND_MSG
    /\ Len(hook.notes) = 1
    /\ hook.loadingState = "success"
    /\ hook.error = Null

\* a fetch of the list rejected: the hook shows the error state with the
\* message, and keeps the list and the pagination it had
FetchRejectionShown ==
    (StepOf("settle", {"fetch"}) /\ ~lastStep'.result.ok) =>
        /\ hook'.error = lastStep'.result.error.message
        /\ hook'.error \notin {Null, ""}
        /\ hook'.loadingState = "error"
        /\ hook'.notes = hook.notes
        /\ hook'.pagination = hook.pagination

\* the error of the hook is cleared by the start of a fetch (a change of the
\* filters starts one) or by clearError, and by nothing else
ErrorKeptUntilCleared ==
    (hook.error # Null /\ hook'.error = Null) =>
        \/ lastStep'.op = "clearError"
        \/ StepOf("start", {"fetch", "refresh"})

\* C17: when a fetch of the note list rejects, the hook enters the error
\* state with the message retained (the error stays non-null until the next
\* fetch starts, the filters change or clearError is called) and the list and
\* pagination loaded before are preserved.
C17_FetchErrorRetained == [][FetchRejectionShown /\ ErrorKeptUntilCleared]_vars

\* C18: the adapter retries only read calls: for one invocation of
\* createNote, updateNote, deleteNote or toggleArchiveNote the request is sent
\* to the backend at most once, also when it fails with a 5xx response or
\* with no response.
C18_WritesSentAtMostOnce ==
    \A c \in DOMAIN inFlight :
        inFlight[c].kind \in MutatingKinds => inFlight[c].sent <= 1

\* the list entry is the note with the given id: the entries the hook put in
\* from a create, update or archive answer carry it as id, the entries of a
\* list answer carry it as _id
EntryOf(note, id) ==
    \/ Has(note, "id") /\ note.id = id
    \/ Has(note, "_id") /\ note._id = id

\* the list with the entries of the given id replaced by the note
Replaced(list, id, note) ==
    [i \in DOMAIN list |-> IF EntryOf(list[i], id) THEN note ELSE list[i]]

\* C19: on confirmation of updateNote(id) or archiveNote(id) the list entry
\* with that id is replaced by the note the server returned, at the same
\* index; the length of the list, the other entries and their order, and
\* totalCount are unchanged.
C19_ConfirmedUpdateReplacesEntry ==
    [][(StepOf("settle", {"update", "archive"}) /\ lastStep'.result.ok) =>
          /\ hook'.notes = Replaced(hook.notes, lastStep'.id, lastStep'.result.value)
          /\ hook'.pagination = hook.pagination]_vars

\* the list without the entries of the given id, the others in their order
Without(list, id) == SelectSeq(list, LAMBDA note : ~EntryOf(note, id))

\* C20: on confirmation of deleteNote(id) the entry with that id is removed
\* from the list, the remaining entries keep their order, and totalCount
\* decreases by exactly 1.
C20_ConfirmedDeleteRemovesEntry ==
    [][(StepOf("settle", {"delete"}) /\ lastStep'.result.ok) =>
          /\ hook'.notes = Without(hook.notes, lastStep'.id)
          /\ TotalCount(hook') = TotalCount(hook) - 1]_vars

\* a happened, and b happened later
Before(log, a, b) ==
    \E i, j \in 1..Len(log) : i < j /\ log[i] = a /\ log[j] = b

Triggered == proc.received # <<>>

Exited == proc.exit # Running

\* exit code 0 is given only once the listening socket has closed, the
\* connections have drained and, after that, the database connection has been
\* closed; every exit after a trigger falls within the grace period
ShutdownOutcome ==
    /\ proc.exit = 0 =>
          /\ ~proc.listening
          /\ proc.connections = 0
          /\ proc.db = "closed"
          /\ Before(proc.log, "socketClosed", "drained")
          /\ Before(proc.log, "drained", "dbClosed")
          /\ \A i \in 1..Len(proc.log) :
                proc.log[i] = "connectionEnded" =>
                    \E j \in (i + 1)..Len(proc.log) : proc.log[j] = "drained"
    /\ (Exited /\ proc.exit # 0) => Triggered
    /\ Triggered => proc.elapsed <= FORCE_SHUTDOWN_MS

\* C21: after a shutdown trigger the process always terminates: with exit
\* code 0 only after the listening socket has closed with the connections in
\* flight drained and then the database connection has been closed, in that
\* order; otherwise with a non-zero code no later than the grace period.
C21_ShutdownTerminates ==
    /\ []ShutdownOutcome
    /\ Triggered ~> Exited

C21_Witness ==
    /\ proc.exit = 0
    /\ Len(proc.received) = 1
    /\ proc.log = <<"socketClosed", "connectionEnded", "drained", "disconnecting",
                    "dbClosed">>
    /\ proc.elapsed > 0

\* the call whose request the step was
Requesting == inFlight[lastStep'.call]

AfterRequest == inFlight'[lastStep'.call]

\* the exchange of the step, as axios saw it
Exchange == lastStep'.x

Status == IF Exchange.answered THEN Exchange.status ELSE 0

\* what retryRequest does after one request, by the way the request ended
RetryDiscipline ==
    lastStep'.op = "request" =>
        /\ lastStep'.sent = Requesting.sent + 1
        /\ lastStep'.sent <= RETRY_ATTEMPTS
        /\ Resolves(Exchange) =>
              /\ AfterRequest.phase = "settling"
              /\ AfterRequest.result = apiResult(Requesting.kind, Exchange)
              /\ AfterRequest.waits = Requesting.waits
        /\ Status \in 400..499 =>
              /\ AfterRequest.phase = "settling"
              /\ AfterRequest.result = Thrown(handleError(Exchange))
              /\ AfterRequest.waits = Requesting.waits
        /\ (Status >= 500 \/ ~Exchange.answered) =>
              IF lastStep'.sent < RETRY_ATTEMPTS
              THEN /\ AfterRequest.phase = "requesting"
                   /\ AfterRequest.waits =
                          Append(Requesting.waits, RETRY_DELAY * 2^(lastStep'.sent - 1))
              ELSE /\ AfterRequest.phase = "settling"
                   /\ AfterRequest.result = Thrown(handleError(Exchange))
                   /\ AfterRequest.waits = Requesting.waits

\* the call numbered c is in its retry loop
InRetryLoop(c) == c \in DOMAIN inFlight /\ inFlight[c].phase = "requesting"

\* C22: retryRequest always terminates and invokes the request at most
\* RETRY_ATTEMPTS times: it returns the first successful result, rethrows at
\* once on a 4xx response, retries on a 5xx response and on a failure with no
\* response, waits RETRY_DELAY * 2^i before the attempt that follows failed
\* attempt i (from 0), and after the last attempt rethrows that attempt's
\* error without waiting.
C22_RetryRequestDiscipline ==
    /\ [][RetryDiscipline]_vars
    /\ \A c \in 1..MaxCalls : InRetryLoop(c) ~> ~InRetryLoop(c)

C22_Witness ==
    \E c \in DOMAIN inFlight :
        /\ inFlight[c].phase = "settling"
        /\ inFlight[c].sent = RETRY_ATTEMPTS
        /\ inFlight[c].waits = <<1000, 2000>>
        /\ ~inFlight[c].result.ok
        /\ inFlight[c].result.error.status = SERVICE_UNAVAILABLE

\* the call settled at position i of the history
SettledCall(i) == settled[i].request

\* the calls at positions i < j of the history were in flight together and
\* both were confirmed
ConfirmedTogether(i, j) ==
    /\ i < j
    /\ settled[j].call \in settled[i].with
    /\ SettledCall(i).result.ok
    /\ SettledCall(j).result.ok

\* C23: when updateNote(id) and deleteNote(id) were in flight together and
\* both were confirmed, the list ends as the response that resolved last
\* dictates: without the note if that was the delete, with the updated note
\* if that was the update.
C23_LastResponseWins ==
    \A i, j \in DOMAIN settled :
        (/\ ConfirmedTogether(i, j)
         /\ j = Len(settled)
         /\ inFlight = EmptyRecord
         /\ {SettledCall(i).kind, SettledCall(j).kind} = {"update", "delete"}
         /\ SettledCall(i).id = SettledCall(j).id) =>
            IF SettledCall(j).kind = "delete"
            THEN \A k \in DOMAIN hook.notes : ~EntryOf(hook.notes[k], SettledCall(j).id)
            ELSE \E k \in DOMAIN hook.notes : hook.notes[k] = SettledCall(j).result.value

\* the state the hook gives its view, but for the filters
Shown(h) == <<h.notes, h.pagination, h.loadingState, h.isRefreshing, h.error>>

ToggledWithSuccess(id) ==
    {h \in DOMAIN pending : /\ pending[h].op = "toggle"
                            /\ pending[h].id = id
                            /\ pending[h].phase = "answered"
                            /\ pending[h].res.status = OK}

\* a toggle request on id is between its read and its write
ToggleUnderWay(id) ==
    \E h \in DOMAIN pending :
        pending[h].op = "toggle" /\ pending[h].id = id /\ pending[h].phase = "save"

\* the isArchived a note was stored with: that of the seed, false for a note
\* created since
StoredAtFirst(id) == id \in DOMAIN Seeded(1, 0) /\ Seeded(1, 0)[id].isArchived

\* b flipped k times
Flipped(b, k) == IF k % 2 = 0 THEN b ELSE ~b

\* C25: when the toggle requests on a stored note have all been answered,
\* k of them with success, however their reads and writes interleaved, the
\* stored isArchived is the original value flipped k times.
C25_NoToggleLost ==
    \A id \in DOMAIN notes :
        ~ToggleUnderWay(id) =>
            notes[id].isArchived =
                Flipped(StoredAtFirst(id), Cardinality(ToggledWithSuccess(id)))

Least(a, b) == IF a < b THEN a ELSE b

\* the number of items a page of limit items holds after skip of totalCount
ItemsOfPage(totalCount, skip, limit) ==
    Least(limit, IF totalCount - skip > 0 THEN totalCount - skip ELSE 0)

\* C29: in every list answer the data array and pagination.totalCount
\* describe one state of the store, also when creates and deletes run while
\* the list request is handled: the number of items is
\* min(limit, max(0, totalCount - skip)).
C29_ListAnswerOfOneState ==
    \A h \in DOMAIN pending :
        (pending[h].op = "list" /\ pending[h].phase = "answered") =>
            Len(pending[h].res.body.data) =
                ItemsOfPage(pending[h].res.body.pagination.totalCount,
                         listSkip(pending[h].query),
                         pending[h].res.body.pagination.limit)

\* the position in the history of the call made last
LatestSettled ==
    CHOOSE i \in DOMAIN settled : \A j \in DOMAIN settled : settled[j].call <= settled[i].call

\* C26: when the filters changed while a list fetch was in flight and all
\* fetches have resolved, the list and the pagination of the hook are those
\* returned for the most recent filters, in whatever order the responses
\* arrived.
C26_LatestFiltersShown ==
    (/\ inFlight = EmptyRecord
     /\ \A i \in DOMAIN settled : SettledCall(i).kind = "fetch" /\ SettledCall(i).result.ok
     /\ \E i, j \in DOMAIN settled :
            /\ ConfirmedTogether(i, j)
            /\ SettledCall(i).filters # SettledCall(j).filters) =>
        /\ SettledCall(LatestSettled).filters = hook.filters
        /\ hook.notes = SettledCall(LatestSettled).result.value.data
        /\ hook.pagination = SettledCall(LatestSettled).result.value.pagination

\* the list of the hook holds an entry for the note id
Listed(id) == \E k \in DOMAIN hook.notes : EntryOf(hook.notes[k], id)

\* the stored note id is on the page the current filters ask for: the first
\* page of the notes that are not archived
OnCurrentPage(id) ==
    /\ id \in DOMAIN notes
    /\ ~notes[id].isArchived
    /\ hook.filters = EmptyRecord

\* C27: once all requests in flight have resolved, a note whose creation was
\* confirmed and that is on the current page is in the list, and a note
\* whose deletion was confirmed is not, whatever fetch or refresh response
\* issued before the confirmation arrived after it.
C27_ListKeepsConfirmedMutations ==
    inFlight = EmptyRecord =>
        \A i \in DOMAIN settled :
            /\ (/\ SettledCall(i).kind = "create"
                /\ SettledCall(i).result.ok
                /\ OnCurrentPage(SettledCall(i).result.value.id)) =>
                    Listed(SettledCall(i).result.value.id)
            /\ (SettledCall(i).kind = "delete" /\ SettledCall(i).result.ok) =>
                    ~Listed(SettledCall(i).id)

\* C28: in every state of the hook pagination.totalCount is not negative and
\* not smaller than the number of notes in the list.
C28_TotalCountCoversList ==
    /\ TotalCount(hook) >= 0
    /\ TotalCount(hook) >= Len(hook.notes)

Logged(event) == \E i \in 1..Len(proc.log) : proc.log[i] = event

\* the shutdown of a listening server whose connections drained before a
\* timer fired, the database connection not failing to close
DrainedInTime ==
    /\ Exited
    /\ Logged("socketClosed")
    /\ Logged("drained")
    /\ proc.exitBy \notin {"timeout", "dbError"}

\* C30: a second trigger during a graceful shutdown does not change its
\* outcome: when the connections drain within the grace period the process
\* exits with code 0, and only after the database connection has been closed.
C30_SecondTriggerKeepsOutcome ==
    DrainedInTime =>
        /\ proc.exit = 0
        /\ proc.db = "closed"
        /\ Before(proc.log, "drained", "dbClosed")

============================================================================
